---- MODULE Spec2Model ----
(***************************************************************************)
(* VisionTalk: the per-user capture / analyse / speak pipeline, its        *)
(* processing guard, the audio "queue" (withAudioQueue) and the speech     *)
(* duplicate suppression (speakWithEvent), as a state machine.             *)
(*                                                                         *)
(* JavaScript runs one callback at a time: every action below is one       *)
(* callback (an event handler, a timer, the continuation of an awaited     *)
(* call) run up to its next suspension point.                              *)
(*                                                                         *)
(* The repository holds two implementations of services/tts: the one with  *)
(* hashText / splitIntoChunks (variant "A") and the one with simpleHash /  *)
(* chunkText (variant "B").  ttsImpl names the one the build uses.         *)
(***************************************************************************)
EXTENDS Integers, Sequences, FiniteSets, TLC

(* ------------------------------ bounds -------------------------------- *)
MaxLiveRuns == 2      \* button handler invocations in flight at one time
MaxPhotos == 2        \* photos the devices deliver in one behaviour
MaxDiag == 1          \* diagnostic audio requests in flight at one time
MaxCalls == 3         \* direct speakWithEvent calls in one behaviour (SpecSpeak)
StartClock == 1000    \* Date.now() at the start of the behaviour
TickMs == 600         \* granularity of the clock
MaxClock == 2800      \* the clock stops here
MaxAttempts == 3      \* options.attempts of requestPhotoRobust goes up to this (SpecCapture)
MaxCaptures == 15     \* cachePhoto calls in one behaviour (SpecPhotos)
MaxRecorded == 203    \* events recorded between two clears (SpecEvents)
MixHead == 3          \* the two sessions interleave freely over the first MixHead events
MixTail == 2          \* and again from MixTail events before the buffer is full (SpecEvents)
MaxClears == 1        \* POST /api/events/clear requests in one behaviour (SpecEvents)
MaxTextLen == 6       \* characters of the texts handed to the chunking function (SpecChunks)
MaxChunkChars == 4    \* the limit handed to the chunking function goes up to this (SpecChunks)
MaxEnsure == 3        \* calls of ensureUserState per user id (SpecStates)

(* ------------------------- program constants -------------------------- *)
AUDIO_DUPLICATE_SUPPRESS_MS == 1200
MAX_EVENTS == 200
MAX_PHOTO_HISTORY == 10
ANSWER_LIMIT == 600

Users == {"u1", "u2"}
Sessions == {"s1", "s2", "s3"}
\* onSession(session, sessionId, userId): the user a session belongs to
userOf == [s \in Sessions |-> IF s = "s3" THEN "u2" ELSE "u1"]
\* session.capabilities.hasCamera: the second device of u1 has no camera
hasCamera == [s \in Sessions |-> s # "s2"]

\* texts are sequences of UTF-16 code units (first characters of the literal)
TXT_STAY_STILL == <<83, 116>>      \* "Stay still while I capture the image."
TXT_NO_CAMERA == <<67, 97>>        \* "Camera not available on this device."
TXT_ANALYZING == <<65, 110>>       \* "Analyzing what I see..."
TXT_SORRY == <<83, 111>>           \* "Sorry, something went wrong."
TXT_READY == <<86, 105>>           \* "VisionTalk ready."
TXT_DIAG == <<84, 84>>             \* "TTS only diagnostic test"
TXT_CHUNK == <<99, 104>>           \* a chunk of the analysis text

Voices == {"pipeline", "welcome", "diag", "empty", "undefined"}

VARIABLES
  env,          \* configuration read at start-up (ENV)
  ttsImpl,      \* which services/tts implementation is built in
  trace,        \* whether the event timeline is kept in this specification
  faults,       \* whether collaborator calls may fail in this specification
  now,          \* Date.now()
  userKeys,     \* keys of the userState map
  userState,    \* the userState map: one UserState record per key
  sessions,     \* the AppSessions the SDK has handed to onSession
  sessionsByUser,
  runs,         \* accepted invocations of the button handler, by slot
  ops,          \* per user, the invocations of withAudioQueue in flight, in submission order
  calls,        \* direct invocations of speakWithEvent (SpecSpeak)
  events,       \* the event ring buffer
  nextPhoto,    \* request id of the next photo the device delivers
  lastPress,    \* the last press: its session, and whether it was accepted, dropped or long
  cap,          \* the invocation of requestPhotoRobust under study (SpecCapture)
  hist,         \* history: what was captured and recorded so far (SpecPhotos, SpecEvents)
  speech,       \* the text handed to the chunking function, and its chunks (SpecChunks)
  analysis      \* what analyzeImageService returned, and the text dispatched for it (SpecScenario)

vars == <<env, ttsImpl, trace, faults, now, userKeys, userState, sessions, sessionsByUser,
          runs, ops, calls, events, nextPhoto, lastPress, cap, hist, speech, analysis>>

(* ------------------------------ helpers ------------------------------- *)
\* a buffer that refuses the new event when full
recordEventKeepOldest(evs, stage) ==
  IF Len(evs) >= MAX_EVENTS THEN evs ELSE Append(evs, stage)

\* recordEvent: push, then shift when over MAX_EVENTS
recordEventOn(evs, stage) ==
  LET pushed == Append(evs, stage)
  IN IF Len(pushed) > MAX_EVENTS THEN Tail(pushed) ELSE pushed

recordEvent(evs, stage) == IF trace THEN recordEventOn(evs, stage) ELSE evs

RECURSIVE recordAll(_, _)
recordAll(evs, stages) ==
  IF stages = <<>> THEN evs
  ELSE recordAll(recordEvent(evs, Head(stages)), Tail(stages))

\* the default UserState of ensureUserState
DefaultState ==
  [isProcessing |-> FALSE, photoHistory |-> <<>>, welcomePlayed |-> FALSE,
   startupDebounceUntil |-> 0, lastTTSHash |-> <<>>, lastTTSAt |-> 0,
   audioChain |-> {}, latestAnalysis |-> 0, analysisByRequestId |-> {}]

\* the key under which the state of userId is kept (this.userState.get(userId))
\* the single-user build: one state, under the demo user, for everybody
StateKeyDemo(userId) == "u1"

StateKey(userId) == userId

\* JSON.stringify(voice || {}) of the voice configurations in use
VoiceJson(voice) ==
  CASE voice = "pipeline" -> "{voice_id,model_id,voice_settings}"
    [] voice = "welcome" -> "{voice_id,model_id}"
    [] voice = "diag" -> "{model_id}"
    [] OTHER -> "{}"

\* one round of simpleHash: h = ((h << 5) - h) + charCode; h |= 0, that is
\* 31 * h + charCode wrapped to a signed 32-bit integer (computed on 16-bit
\* halves)
simpleHashStep(h, charCode) ==
  LET lo == h % 65536
      hi == (h \div 65536) % 65536
      lo2 == lo * 31 + charCode
      hi2 == (hi * 31 + lo2 \div 65536) % 65536
      lo3 == lo2 % 65536
  IN IF hi2 >= 32768 THEN (hi2 - 65536) * 65536 + lo3 ELSE hi2 * 65536 + lo3

RECURSIVE simpleHashFrom(_, _)
simpleHashFrom(h, input) ==
  IF input = <<>> THEN h
  ELSE simpleHashFrom(simpleHashStep(h, Head(input)), Tail(input))

simpleHash(input) == <<"str", simpleHashFrom(0, input)>>

\* hashText(text + JSON.stringify(voice || {})): SHA-256, taken as
\* collision free, is represented by the string it digests
hashText(text, voice) == <<"sha256", text, VoiceJson(voice)>>

\* the fingerprint speakWithEvent computes
Fingerprint(text, voice) ==
  IF ttsImpl = "A" THEN hashText(text, voice) ELSE simpleHash(text)

\* the duplicate test of speakWithEvent at time t
IsDuplicate(st, hash, t) ==
  /\ st.lastTTSHash = hash
  /\ st.lastTTSAt # 0
  /\ t - st.lastTTSAt < AUDIO_DUPLICATE_SUPPRESS_MS

\* a speakWithEvent that stamps the state on a suppressed call too
SpeakBeginStamping(st, evs, text, voice, tag) ==
  LET hash == Fingerprint(text, voice)
      dup == IsDuplicate(st, hash, now)
      st2 == [st EXCEPT !.lastTTSHash = hash, !.lastTTSAt = now]
  IN [sup |-> dup, st |-> st2,
      evs |-> IF dup
              THEN recordEvent(evs, <<tag, "suppressed">>)
              ELSE recordEvent(evs, <<tag, "start">>)]

\* speakWithEvent up to the device call: [sup, st, evs]
\*   sup: the call is suppressed; st: the user's state; evs: the timeline
SpeakBegin(st, evs, text, voice, tag) ==
  LET hash == Fingerprint(text, voice)
      dup == IsDuplicate(st, hash, now)
      st2 == IF dup THEN st ELSE [st EXCEPT !.lastTTSHash = hash, !.lastTTSAt = now]
  IN IF ttsImpl = "A"
     THEN [sup |-> dup, st |-> st2,
           evs |-> IF dup
                   THEN recordAll(evs, << <<tag, "start">>, <<"tts_duplicate_suppressed">> >>)
                   ELSE recordEvent(evs, <<tag, "start">>)]
     ELSE [sup |-> dup, st |-> st2,
           evs |-> IF dup
                   THEN recordEvent(evs, <<tag, "suppressed">>)
                   ELSE recordEvent(evs, <<tag, "start">>)]


(* ------------------- the machine, as a record M ----------------------- *)
\* M = [us: userState, ops, runs, evs: events, np: nextPhoto]
Machine == [us |-> userState, ops |-> ops, runs |-> runs, evs |-> events, np |-> nextPhoto]

Slots == 1..MaxLiveRuns

IdleRun ==
  [user |-> "", session |-> "", mode |-> "", pc |-> "idle", dev |-> "none",
   err |-> "none", exit |-> "none", photo |-> 0, thrown |-> "none"]

NewRun(u, s, mode, pc) == [IdleRun EXCEPT !.user = u, !.session = s, !.mode = mode, !.pc = pc]

Live(run) == run.pc \notin {"idle", "done"}

ChunkText(i) == Append(TXT_CHUNK, i)

\* playTTSInChunks from chunk i of n on: speaks chunk i, goes on to the next
\* one when the call was suppressed; [i: the chunk being spoken, n + 1 when
\* the loop is over, st, evs]
RECURSIVE ChunkLoop(_, _, _, _)
ChunkLoop(st, evs, i, n) ==
  IF i > n THEN [i |-> i, st |-> st, evs |-> evs]
  ELSE LET evs1 == IF ttsImpl = "A" THEN recordEvent(evs, <<"tts_chunk_start", i>>) ELSE evs
           sb == SpeakBegin(st, evs1, ChunkText(i), "pipeline", <<"tts_chunk", i>>)
       IN IF sb.sup
          THEN ChunkLoop(sb.st,
                         IF ttsImpl = "A" THEN recordEvent(sb.evs, <<"tts_chunk_done", i>>) ELSE sb.evs,
                         i + 1, n)
          ELSE [i |-> i, st |-> sb.st, evs |-> sb.evs]

\* an invocation of withAudioQueue whose fn is running its device call
NewOp(owner, kind, tag) ==
  [owner |-> owner, kind |-> kind, tag |-> tag, st |-> "fn", dev |-> "active",
   chunk |-> 0, total |-> 0, fnres |-> "pending"]

\* withAudioQueue(userId, fn) up to its first suspension: the new tail of the
\* chain is registered (audioChain = prev.then(() => next)) and fn is called
\* at once.  audioChain is the set of next promises its tail still waits for.
withAudioQueue(M, u, owner, kind, text, voice, tag, n) ==
  LET k == StateKey(u)
      id == Len(M.ops[u]) + 1
      us1 == [M.us EXCEPT ![k].audioChain = @ \cup {id}]
      evs1 == recordEvent(M.evs, <<"audio_queue_enter", u>>)
      op == NewOp(owner, kind, tag)
  IN CASE kind = "play" ->
            [M EXCEPT !.us = us1, !.evs = evs1, !.ops[u] = Append(@, op)]
       [] kind = "speak" ->
            LET sb == SpeakBegin(us1[k], evs1, text, voice, tag)
            IN [M EXCEPT !.us = [us1 EXCEPT ![k] = sb.st], !.evs = sb.evs,
                         !.ops[u] = Append(@, IF sb.sup
                                           THEN [op EXCEPT !.st = "tail", !.dev = "none", !.fnres = "ok"]
                                           ELSE op)]
       [] kind = "chunks" ->
            LET evs2 == IF ttsImpl = "A" THEN recordEvent(evs1, <<"tts_chunking", n>>) ELSE evs1
                cl == ChunkLoop(us1[k], evs2, 1, n)
            IN [M EXCEPT !.us = [us1 EXCEPT ![k] = cl.st], !.evs = cl.evs,
                         !.ops[u] = Append(@, IF cl.i > n
                                           THEN [op EXCEPT !.st = "tail", !.dev = "none", !.fnres = "ok",
                                                           !.chunk = cl.i, !.total = n]
                                           ELSE [op EXCEPT !.chunk = cl.i, !.total = n])]

\* a handler that clears the flag at the end of its try block only
FinishOnSuccess(M, r, exit) ==
  [M EXCEPT !.runs[r] = [IdleRun EXCEPT !.user = M.runs[r].user, !.pc = "done",
                                        !.exit = exit, !.err = M.runs[r].err,
                                        !.thrown = M.runs[r].thrown],
            !.us[StateKey(M.runs[r].user)].isProcessing = (exit \notin {"complete", "no_camera"})]

\* the finally of the button handler: state.isProcessing = false
Finish(M, r, exit) ==
  [M EXCEPT !.runs[r] = [IdleRun EXCEPT !.user = M.runs[r].user, !.pc = "done",
                                        !.exit = exit, !.err = M.runs[r].err,
                                        !.thrown = M.runs[r].thrown],
            !.us[StateKey(M.runs[r].user)].isProcessing = FALSE]

\* a catch that also drops the photos of the user
CatchClearing(M, r, err) ==
  LET M1 == [M EXCEPT !.runs[r].pc = "apology", !.runs[r].err = err, !.runs[r].dev = "none",
                      !.us[StateKey(M.runs[r].user)].photoHistory = <<>>]
  IN withAudioQueue(M1, M.runs[r].user, r, "speak", TXT_SORRY, "pipeline", "tts_error", 0)

\* the catch of the button handler: the apology goes through the queue
Catch(M, r, err) ==
  LET M1 == [M EXCEPT !.runs[r].pc = "apology", !.runs[r].err = err, !.runs[r].dev = "none"]
  IN withAudioQueue(M1, M.runs[r].user, r, "speak", TXT_SORRY, "pipeline", "tts_error", 0)

\* a step 4 that does not await the speech before it starts the analysis
AnalyzingDetached(M, r) ==
  withAudioQueue([M EXCEPT !.runs[r].pc = "analysis", !.runs[r].dev = "active",
                           !.evs = recordEvent(@, <<"openai_request_init">>)],
                 M.runs[r].user, 0, "speak", TXT_ANALYZING, "pipeline", "tts_analyzing", 0)

\* step 4 of handlePhotoAndAnalysis: "Analyzing what I see..."
Analyzing(M, r) ==
  withAudioQueue([M EXCEPT !.runs[r].pc = "analyzing"], M.runs[r].user, r,
                 "speak", TXT_ANALYZING, "pipeline", "tts_analyzing", 0)

\* the continuation of a run after the withAudioQueue call it awaits
Resume(M, r, res) ==
  LET run == M.runs[r]
  IN IF res # "ok"
     THEN CASE run.pc = "apology" ->
                 \* the await inside the catch block throws: the handler rejects with it
                 Finish([M EXCEPT !.runs[r].thrown = res], r, "apology_failed")
            [] run.pc = "chime" /\ run.mode = "capture_only" ->
                 Finish([M EXCEPT !.evs = recordAll(@, << <<"chime_error">>, <<"capture_only_complete">> >>)],
                        r, "complete")
            [] OTHER -> Catch(M, r, res)
     ELSE CASE run.pc = "prompt" -> [M EXCEPT !.runs[r].pc = "sleep"]
            [] run.pc = "chime" /\ run.mode = "capture_only" ->
                 Finish([M EXCEPT !.evs = recordAll(@, << <<"chime_done">>, <<"capture_only_complete">> >>)],
                        r, "complete")
            [] run.pc = "chime" /\ run.mode = "analysis" ->
                 Analyzing([M EXCEPT !.evs = recordEvent(@, <<"chime_done">>)], r)
            [] run.pc = "analyzing" ->
                 [M EXCEPT !.runs[r].pc = "analysis", !.runs[r].dev = "active",
                           !.evs = recordEvent(@, <<"openai_request_init">>)]
            [] run.pc = "speaking" ->
                 Finish([M EXCEPT !.evs = recordAll(@, << <<"tts_played">>, <<"pipeline_complete">> >>)],
                        r, "complete")
            [] run.pc = "apology" -> Finish(M, r, "apology_ok")

\* the ops in flight without the i-th, and a chain over the renumbered ops
\* (0 stands for a next promise nobody will resolve any more)
WithoutOp(os, i) == [j \in 1..(Len(os) - 1) |-> IF j < i THEN os[j] ELSE os[j + 1]]

Renumber(chain, i) == {IF j = i THEN 0 ELSE IF j > i THEN j - 1 ELSE j : j \in chain}

\* a queue that resolves next after the tail instead of in a finally
FinallyOnSuccess(M, u, i) ==
  LET op == M.ops[u][i]
      k == StateKey(u)
      M1 == [M EXCEPT !.evs = recordEvent(@, <<"audio_queue_exit", u>>),
                      !.us[k].audioChain = IF op.fnres = "ok" THEN @ \ {i} ELSE @]
      M2 == [M1 EXCEPT !.ops[u] = WithoutOp(@, i),
                       !.us[k].audioChain = Renumber(@, i)]
  IN IF op.owner = 0 THEN M2 ELSE Resume(M2, op.owner, op.fnres)

\* the finally of withAudioQueue(u, fn) once fn has settled with fnres: the
\* slot is released (resolveNext), the outcome of fn goes to the caller, and
\* the caller goes on
Finally(M, u, i) ==
  LET op == M.ops[u][i]
      k == StateKey(u)
      M1 == [M EXCEPT !.evs = recordEvent(@, <<"audio_queue_exit", u>>),
                      !.us[k].audioChain = @ \ {i}]
      M2 == [M1 EXCEPT !.ops[u] = WithoutOp(@, i),
                       !.us[k].audioChain = Renumber(@, i)]
  IN IF op.owner = 0 THEN M2 ELSE Resume(M2, op.owner, op.fnres)

\* fn of ops[u][i] settles with res; a failure reaches the finally at once,
\* a success first waits for the 100 ms tail
Settle(M, u, i, res) ==
  IF res = "ok"
  THEN [M EXCEPT !.ops[u][i].st = "tail", !.ops[u][i].dev = "none", !.ops[u][i].fnres = "ok"]
  ELSE Finally([M EXCEPT !.ops[u][i].fnres = res], u, i)

Apply(M) ==
  /\ userState' = M.us
  /\ ops' = M.ops
  /\ runs' = M.runs
  /\ events' = M.evs
  /\ nextPhoto' = M.np

(* ------------------------------ actions ------------------------------- *)
\* no invocation of requestPhotoRobust yet
IdleCapture ==
  [impl |-> "", session |-> "", attempts |-> 0, backoffMs |-> 0, pc |-> "idle", i |-> 0,
   lastErr |-> <<>>, result |-> "none", requests |-> 0, outcomes |-> <<>>, sleeps |-> <<>>]

\* nothing captured, nothing recorded
\*   captures: per user, the photos cachePhoto was called with, in call order
\*   caching: per user, the photo of the cachePhoto call in progress (0: none)
\*   recorded: events recorded since the last clear, others: those of them
\*   written for the second session, cleared: clears so far
\*   made: per user id, the UserState objects constructed so far, numbered
\*   from 1; held: the one the map holds (0: none); refs: the ones calls of
\*   ensureUserState have returned; ensured: the calls so far; welcomed:
\*   welcomePlayed was set through a returned object
\*   late: the device responses that came after their attempt had timed out
NoHistory ==
  [captures |-> [u \in Users |-> <<>>], caching |-> [u \in Users |-> 0],
   recorded |-> 0, others |-> 0, cleared |-> 0,
   made |-> [u \in Users |-> 0], held |-> [u \in Users |-> 0], refs |-> [u \in Users |-> {}],
   ensured |-> [u \in Users |-> 0], welcomed |-> [u \in Users |-> FALSE],
   late |-> {}]

Configs == [captureOnly : BOOLEAN, chime : BOOLEAN, startupChime : BOOLEAN]

\* CAPTURE_ONLY unset, CAPTURE_CHIME_ENABLED and STARTUP_CHIME at their defaults
DefaultConfig == [captureOnly |-> FALSE, chime |-> TRUE, startupChime |-> FALSE]

\* no text handed to the chunking function
NoSpeech == [text |-> <<>>, maxChars |-> 0, chunks |-> <<>>, pc |-> "idle"]

\* no analysis returned: answer and text are lengths, -1 for a field that is absent
NoAnalysis == [answer |-> -1, text |-> -1, spoken |-> "none", length |-> -1, dispatches |-> 0]

InitBase ==
  /\ now = StartClock
  /\ userKeys = {}
  /\ userState = [u \in Users |-> DefaultState]
  /\ sessionsByUser = [u \in Users |-> "none"]
  /\ runs = [r \in Slots |-> IdleRun]
  /\ ops = [u \in Users |-> <<>>]
  /\ calls = <<>>
  /\ events = <<>>
  /\ nextPhoto = 1
  /\ lastPress = [what |-> "none", session |-> ""]
  /\ cap = IdleCapture
  /\ hist = NoHistory
  /\ analysis = NoAnalysis

InitCommon ==
  /\ InitBase
  /\ speech = NoSpeech

\* one user on two devices, every configuration, collaborators that may fail
Init ==
  /\ InitCommon
  /\ env \in Configs
  /\ ttsImpl \in {"A", "B"}
  /\ trace = FALSE
  /\ faults = TRUE
  /\ sessions = [s \in Sessions |-> IF userOf[s] = "u1" THEN "none" ELSE "absent"]

\* ensureUserState(userId)
ensureUserState(keys, userId) == keys \cup {StateKey(userId)}

\* onSession: the state is looked up, the session registered, the button
\* handler subscribed, and the welcome played once
OnSession(s) ==
  /\ sessions[s] = "none"
  /\ LET u == userOf[s]
         k == StateKey(u)
         st == userState[k]
         welcome == ~st.welcomePlayed /\ (st.startupDebounceUntil = 0 \/ now >= st.startupDebounceUntil)
         M1 == [Machine EXCEPT !.us[k].welcomePlayed = TRUE,
                               !.us[k].startupDebounceUntil = now + AUDIO_DUPLICATE_SUPPRESS_MS]
     IN /\ sessions' = [sessions EXCEPT ![s] = "active"]
        /\ userKeys' = ensureUserState(userKeys, u)
        /\ sessionsByUser' = [sessionsByUser EXCEPT ![u] = s]
        /\ IF welcome
           THEN IF env.startupChime
                THEN Apply(withAudioQueue(M1, u, 0, "play", <<>>, "undefined", "startup_chime", 0))
                ELSE Apply(withAudioQueue(M1, u, 0, "speak", TXT_READY, "welcome", "tts_welcome", 0))
           ELSE Apply(Machine)
  /\ UNCHANGED <<env, ttsImpl, trace, faults, speech, analysis, cap, hist, now, calls, lastPress>>

\* the slot a newly accepted run takes
FreeSlots == {r \in Slots : ~Live(runs[r])}
NewSlot == CHOOSE r \in FreeSlots : \A q \in FreeSlots : r <= q

\* the guard of the button handler
\* a handler without the guard
BusyNever(st) == FALSE

Busy(st) == st.isProcessing

\* the button handler
Press(s, pressType) ==
  /\ sessions[s] = "active"
  /\ LET u == userOf[s]
         k == StateKey(u)
     IN IF pressType # "short"
        THEN lastPress' = [what |-> "long", session |-> s] /\ Apply(Machine)
        ELSE IF Busy(userState[k])
        THEN lastPress' = [what |-> "busy", session |-> s] /\ Apply(Machine)
        ELSE /\ FreeSlots # {}
             /\ nextPhoto <= MaxPhotos
             /\ lastPress' = [what |-> "accepted", session |-> s]
             /\ LET r == NewSlot
                    M1 == [Machine EXCEPT !.us[k].isProcessing = TRUE]
                IN IF env.captureOnly
                   THEN Apply([M1 EXCEPT !.runs[r] = NewRun(u, s, "capture_only", "sleep"),
                                         !.evs = recordEvent(@, <<"capture_only_init">>)])
                   ELSE Apply(withAudioQueue(
                                [M1 EXCEPT !.runs[r] = NewRun(u, s, "analysis", "prompt"),
                                           !.evs = recordEvent(@, <<"capture_init">>)],
                                u, r, "speak", TXT_STAY_STILL, "pipeline", "tts_capture_prompt", 0))
  /\ UNCHANGED <<env, ttsImpl, trace, faults, speech, analysis, cap, hist, now, userKeys, sessions, sessionsByUser, calls>>

\* the sleep before the capture is over: the camera check, then the capture
SleepDone(r) ==
  /\ runs[r].pc = "sleep"
  /\ LET run == runs[r]
         k == StateKey(run.user)
         M1 == [Machine EXCEPT !.evs = recordEvent(@, <<"photo_request">>)]
     IN IF ~hasCamera[run.session]
        THEN LET sb == SpeakBegin(M1.us[k], M1.evs, TXT_NO_CAMERA,
                                  IF run.mode = "analysis" THEN "pipeline" ELSE "empty",
                                  "tts_no_camera")
                 M2 == [M1 EXCEPT !.us[k] = sb.st, !.evs = sb.evs]
             IN IF sb.sup
                THEN Apply(Finish(M2, r, "no_camera"))
                ELSE Apply([M2 EXCEPT !.runs[r].pc = "nocam", !.runs[r].dev = "active"])
        ELSE Apply([M1 EXCEPT !.runs[r].pc = "capture"])
  /\ UNCHANGED <<env, ttsImpl, trace, faults, speech, analysis, cap, hist, now, userKeys, sessions, sessionsByUser, calls, lastPress>>

\* the speak call of the camera notice returns or throws
NoticeReturn(r, res) ==
  /\ runs[r].pc = "nocam" /\ runs[r].dev = "active"
  /\ res = "ok" \/ faults
  /\ IF res = "ok"
     THEN Apply(Finish([Machine EXCEPT !.evs = recordEvent(@, <<"tts_no_camera", "done">>)], r, "no_camera"))
     ELSE Apply(Catch([Machine EXCEPT !.evs = recordEvent(@, <<"tts_no_camera", "error">>)], r, "speak_err"))
  /\ UNCHANGED <<env, ttsImpl, trace, faults, speech, analysis, cap, hist, now, userKeys, sessions, sessionsByUser, calls, lastPress>>

\* a cache that refuses the new photo when full
cachePhotoKeepOldest(history, photo) ==
  IF Len(history) >= MAX_PHOTO_HISTORY THEN history ELSE Append(history, photo)

\* cachePhoto: push, then shift when over the capacity
cachePhoto(history, photo) ==
  LET pushed == Append(history, photo)
  IN IF Len(pushed) > MAX_PHOTO_HISTORY THEN Tail(pushed) ELSE pushed

\* requestPhotoRobust returns a photo or throws its last error
CaptureReturn(r, res) ==
  /\ runs[r].pc = "capture"
  /\ res = "ok" \/ faults
  /\ LET run == runs[r]
         k == StateKey(run.user)
     IN IF res # "ok"
        THEN Apply(Catch(Machine, r, "capture_err"))
        ELSE LET M1 == [Machine EXCEPT !.evs = recordEvent(@, <<"photo_received", nextPhoto>>),
                                       !.us[k].photoHistory = cachePhoto(@, nextPhoto),
                                       !.runs[r].photo = nextPhoto,
                                       !.np = @ + 1]
             IN IF env.chime
                THEN Apply(withAudioQueue([M1 EXCEPT !.runs[r].pc = "chime",
                                                     !.evs = recordEvent(@, <<"chime_play">>)],
                                          run.user, r, "play", <<>>, "undefined", "chime", 0))
                ELSE IF run.mode = "capture_only"
                THEN Apply(Finish([M1 EXCEPT !.evs = recordEvent(@, <<"capture_only_complete">>)], r, "complete"))
                ELSE Apply(Analyzing(M1, r))
  /\ UNCHANGED <<env, ttsImpl, trace, faults, speech, analysis, cap, hist, now, userKeys, sessions, sessionsByUser, calls, lastPress>>

\* analyzeImageService returns {analysis, answer} or throws; the text to
\* speak splits into n chunks
AnalysisReturn(r, res, n) ==
  /\ runs[r].pc = "analysis" /\ runs[r].dev = "active"
  /\ res = "ok" \/ faults
  /\ LET run == runs[r]
         k == StateKey(run.user)
     IN IF res # "ok"
        THEN Apply(Catch(Machine, r, "openai_err"))
        ELSE Apply(withAudioQueue(
                     [Machine EXCEPT !.us[k].latestAnalysis = run.photo,
                                     !.us[k].analysisByRequestId = @ \cup {run.photo},
                                     !.runs[r].pc = "speaking", !.runs[r].dev = "none",
                                     !.evs = recordEvent(@, <<"tts_sent_to_elevenlabs", run.photo>>)],
                     run.user, r, "chunks", <<>>, "pipeline", "tts_chunk", n))
  /\ UNCHANGED <<env, ttsImpl, trace, faults, speech, analysis, cap, hist, now, userKeys, sessions, sessionsByUser, calls, lastPress>>

\* a collaborator call of a run (the camera notice, the analysis request)
\* that will never return
RunHang(r) ==
  /\ runs[r].dev = "active"
  /\ runs' = [runs EXCEPT ![r].dev = "hung"]
  /\ UNCHANGED <<env, ttsImpl, trace, faults, speech, analysis, cap, hist, now, userKeys, userState, sessions, sessionsByUser,
                 ops, calls, events, nextPhoto, lastPress>>

\* the device call (speak, playAudio) of an audio operation returns or throws
DeviceReturn(u, i, res) ==
  /\ i \in 1..Len(ops[u])
  /\ ops[u][i].st = "fn" /\ ops[u][i].dev = "active"
  /\ res = "ok" \/ faults
  /\ LET op == ops[u][i]
         k == StateKey(u)
     IN CASE op.kind = "play" ->
               Apply(Settle(Machine, u, i, IF res = "ok" THEN "ok" ELSE "play_err"))
          [] op.kind = "speak" ->
               Apply(Settle([Machine EXCEPT !.evs = recordEvent(@, <<op.tag, IF res = "ok" THEN "done" ELSE "error">>)],
                            u, i, IF res = "ok" THEN "ok" ELSE "speak_err"))
          [] op.kind = "chunks" ->
               IF res = "ok"
               THEN LET evs1 == recordEvent(events, <<"tts_chunk", op.chunk, "done">>)
                        cl == ChunkLoop(userState[k],
                                        IF ttsImpl = "A" THEN recordEvent(evs1, <<"tts_chunk_done", op.chunk>>) ELSE evs1,
                                        op.chunk + 1, op.total)
                        M1 == [Machine EXCEPT !.us[k] = cl.st, !.evs = cl.evs, !.ops[u][i].chunk = cl.i]
                    IN IF cl.i > op.total THEN Apply(Settle(M1, u, i, "ok")) ELSE Apply(M1)
               ELSE LET M1 == [Machine EXCEPT !.evs = recordEvent(@, <<"tts_chunk", op.chunk, "error">>)]
                    IN IF ttsImpl = "A"
                       THEN \* the catch of playTTSInChunks: record, break
                            Apply(Settle([M1 EXCEPT !.evs = recordEvent(@, <<"tts_analysis_error", op.chunk>>)], u, i, "ok"))
                       ELSE Apply(Settle(M1, u, i, "speak_err"))
  /\ UNCHANGED <<env, ttsImpl, trace, faults, speech, analysis, cap, hist, now, userKeys, sessions, sessionsByUser, calls, lastPress>>

\* the device call of an audio operation that will never return
DeviceHang(u, i) ==
  /\ i \in 1..Len(ops[u])
  /\ ops[u][i].st = "fn" /\ ops[u][i].dev = "active"
  /\ ops' = [ops EXCEPT ![u][i].dev = "hung"]
  /\ UNCHANGED <<env, ttsImpl, trace, faults, speech, analysis, cap, hist, now, userKeys, userState, sessions, sessionsByUser,
                 runs, calls, events, nextPhoto, lastPress>>

\* the 100 ms tail of an audio operation is over
TailDone(u, i) ==
  /\ i \in 1..Len(ops[u])
  /\ ops[u][i].st = "tail"
  /\ Apply(Finally(Machine, u, i))
  /\ UNCHANGED <<env, ttsImpl, trace, faults, speech, analysis, cap, hist, now, userKeys, sessions, sessionsByUser, calls, lastPress>>

\* GET /api/diag/audio/tts-only for the user of an active session
DiagTTS(u) ==
  /\ Cardinality({i \in 1..Len(ops[u]) : ops[u][i].tag = "diag_tts_only"}) < MaxDiag
  /\ sessionsByUser[u] # "none"
  /\ userKeys' = ensureUserState(userKeys, u)
  /\ Apply(withAudioQueue([Machine EXCEPT !.evs = recordEvent(@, <<"diag_tts_only_start", u>>)],
                          u, 0, "speak", TXT_DIAG, "diag", "diag_tts_only", 0))
  /\ UNCHANGED <<env, ttsImpl, trace, faults, speech, analysis, cap, hist, now, sessions, sessionsByUser, calls, lastPress>>

\* the most audio operations one user can have in flight
MaxOps == MaxLiveRuns + MaxDiag + Cardinality(Sessions)

Outcomes == {"ok", "error"}

NextCore ==
  \/ \E s \in Sessions : OnSession(s)
  \/ \E s \in Sessions : Press(s, "short")
  \/ \E r \in Slots : SleepDone(r)
  \/ \E r \in Slots, res \in Outcomes : CaptureReturn(r, res)
  \/ \E r \in Slots, res \in Outcomes, n \in 1..2 : AnalysisReturn(r, res, n)
  \/ \E u \in Users, i \in 1..MaxOps, res \in Outcomes : DeviceReturn(u, i, res)
  \/ \E u \in Users, i \in 1..MaxOps : TailDone(u, i)

Next ==
  \/ NextCore
  \/ \E r \in Slots, res \in Outcomes : NoticeReturn(r, res)
  \/ \E u \in Users : DiagTTS(u)

Spec == Init /\ [][Next]_vars


\* one user on one device, the default configuration, collaborators that may
\* never return
InitHang ==
  /\ InitCommon
  /\ env = DefaultConfig
  /\ ttsImpl \in {"A", "B"}
  /\ trace = FALSE
  /\ faults = TRUE
  /\ sessions = [s \in Sessions |-> IF s = "s1" THEN "none" ELSE "absent"]

NextHang ==
  \/ NextCore
  \/ \E r \in Slots : RunHang(r)
  \/ \E u \in Users, i \in 1..MaxOps : DeviceHang(u, i)

\* what the event loop guarantees: a timer that is due fires, and a
\* collaborator call that is going to return does return
Scheduling ==
  /\ WF_vars(\E r \in Slots : SleepDone(r))
  /\ WF_vars(\E r \in Slots, res \in Outcomes : CaptureReturn(r, res))
  /\ WF_vars(\E r \in Slots, res \in Outcomes, n \in 1..2 : AnalysisReturn(r, res, n))
  /\ WF_vars(\E u \in Users, i \in 1..MaxOps, res \in Outcomes : DeviceReturn(u, i, res))
  /\ WF_vars(\E u \in Users, i \in 1..MaxOps : TailDone(u, i))

SpecHang == InitHang /\ [][NextHang]_vars /\ Scheduling

\* two users, one device each, the default configuration, collaborators
\* that answer
InitUsers ==
  /\ InitCommon
  /\ env = DefaultConfig
  /\ ttsImpl = "A"
  /\ trace = FALSE
  /\ faults = FALSE
  /\ sessions = [s \in Sessions |-> IF s \in {"s1", "s3"} THEN "none" ELSE "absent"]

SpecUsers == InitUsers /\ [][NextCore]_vars

(* ------------------- speakWithEvent called directly ------------------- *)
\* two texts that simpleHash maps to the same value: "Aa" and "BB"
SpeakTexts == {<<65, 97>>, <<66, 66>>}
SpeakVoices == {"pipeline", "diag", "undefined"}

\* speakWithEvent(session, state, text, voice, tag, ...) up to its await
SpeakCall(u, text, voice) ==
  /\ Len(calls) < MaxCalls
  /\ \A c \in 1..Len(calls) : calls[c].dev # "active"
  /\ LET k == StateKey(u)
         sb == SpeakBegin(userState[k], events, text, voice, "tts_test")
     IN /\ userState' = [userState EXCEPT ![k] = sb.st]
        /\ events' = sb.evs
        /\ calls' = Append(calls, [user |-> u, text |-> text, voice |-> voice, at |-> now,
                                   hashBefore |-> userState[k].lastTTSHash,
                                   atBefore |-> userState[k].lastTTSAt,
                                   sup |-> sb.sup,
                                   dev |-> IF sb.sup THEN "none" ELSE "active"])
  /\ UNCHANGED <<env, ttsImpl, trace, faults, speech, analysis, cap, hist, now, userKeys, sessions, sessionsByUser,
                 runs, ops, nextPhoto, lastPress>>

\* session.audio.speak returns or throws; speakWithEvent records and rethrows
SpeakReturn(c, res) ==
  /\ c \in 1..Len(calls)
  /\ calls[c].dev = "active"
  /\ res = "ok" \/ faults
  /\ calls' = [calls EXCEPT ![c].dev = res]
  /\ events' = recordEvent(events, <<"tts_test", IF res = "ok" THEN "done" ELSE "error">>)
  /\ UNCHANGED <<env, ttsImpl, trace, faults, speech, analysis, cap, hist, now, userKeys, userState, sessions, sessionsByUser,
                 runs, ops, nextPhoto, lastPress>>

\* time passes
Tick ==
  /\ now + TickMs <= MaxClock
  /\ now' = now + TickMs
  /\ UNCHANGED <<env, ttsImpl, trace, faults, speech, analysis, cap, hist, userKeys, userState, sessions, sessionsByUser,
                 runs, ops, calls, events, nextPhoto, lastPress>>

InitSpeak ==
  /\ InitCommon
  /\ env = DefaultConfig
  /\ ttsImpl \in {"A", "B"}
  /\ trace = TRUE
  /\ faults = TRUE
  /\ sessions = [s \in Sessions |-> "absent"]

NextSpeak ==
  \/ \E text \in SpeakTexts, voice \in SpeakVoices : SpeakCall("u1", text, voice)
  \/ \E c \in 1..MaxCalls, res \in Outcomes : SpeakReturn(c, res)
  \/ Tick

SpecSpeak == InitSpeak /\ [][NextSpeak]_vars

(* ------------------------- requestPhotoRobust -------------------------- *)
\* error messages, as the pieces the code looks for in them
ERR_TIMEOUT == <<"photo_request_", "timeout">>
ERR_BUSY == <<"camera_", "busy">>
ERR_PERMISSION == <<"camera_", "permission", "_denied">>
ERR_NOT_AVAILABLE == <<"camera_", "not_available">>
ERR_EMPTY == <<"empty_photo_buffer">>

\* msg.includes(piece)
includes(msg, piece) == \E j \in 1..Len(msg) : msg[j] = piece

\* what session.camera.requestPhoto, raced against the timeout, comes back with
Delivered(kind) == [kind |-> kind, msg |-> <<>>]
Rejected(msg) == [kind |-> "error", msg |-> msg]
DeviceOutcomes ==
  {Delivered("photo"), Delivered("empty"), Rejected(ERR_TIMEOUT), Rejected(ERR_BUSY),
   Rejected(ERR_PERMISSION), Rejected(ERR_NOT_AVAILABLE)}

\* the two requestPhotoRobust of the repository: services/camera.ts and
\* services/centerEmphasis.ts
CaptureImpls == {"camera", "center"}
BackoffChoices == {750, 1000}

\* a precondition that never fails
CameraMissingNever(s) == FALSE

\* !session.capabilities?.hasCamera
CameraMissing(s) == ~hasCamera[s]

\* a controller that retries whatever the error
IsTerminalNever(msg) == FALSE

\* msg.includes('permission') || msg.includes('not_available')
IsTerminal(msg) == includes(msg, "permission") \/ includes(msg, "not_available")

\* a constant backoff
BackoffConstant(backoffMs, i) == backoffMs

\* backoffMs * (i + 1), i the index of the failed attempt counted from 0
Backoff(backoffMs, i) == backoffMs * (i + 1)

\* a controller that keeps the first error
FirstErr(prev, err) == IF prev = <<>> THEN err ELSE prev

\* lastErr = err
LastErr(prev, err) == err

\* a body of the try with the buffer test inverted
AttemptResultInverted(impl, out) ==
  IF out.kind = "photo" THEN Rejected(ERR_EMPTY) ELSE out

\* the body of the try: services/camera.ts returns whatever the device
\* delivers, services/centerEmphasis.ts throws on an empty buffer
AttemptResult(impl, out) ==
  IF impl = "center" /\ out.kind = "empty" THEN Rejected(ERR_EMPTY) ELSE out

\* the events an attempt starts with
AttemptStart(impl, evs, i) ==
  IF impl = "camera"
  THEN recordAll(evs, << <<"photo_request_attempt", i + 1>>, <<"photo_request_start">> >>)
  ELSE recordEvent(evs, <<"photo_request_attempt", i + 1>>)

\* after the loop: photo_request_failed_all_attempts, throw lastErr
ThrowLast(c, evs) ==
  [c |-> [c EXCEPT !.pc = "thrown"],
   evs |-> recordEvent(evs, <<"photo_request_failed_all_attempts", c.lastErr>>)]

\* requestPhotoRobust(session, recordEvent, {attempts, backoffMs}) up to its
\* first await
RequestPhotoRobust(impl, s, attempts, backoffMs) ==
  /\ cap.pc = "idle"
  /\ LET c == [IdleCapture EXCEPT !.impl = impl, !.session = s, !.attempts = attempts,
                                  !.backoffMs = backoffMs]
     IN IF CameraMissing(s)
        THEN /\ cap' = [c EXCEPT !.pc = "thrown", !.lastErr = ERR_NOT_AVAILABLE]
             /\ events' = recordEvent(events, <<"camera_not_available">>)
        ELSE /\ cap' = [c EXCEPT !.pc = "request", !.requests = 1]
             /\ events' = AttemptStart(impl, events, 0)
  /\ UNCHANGED <<env, ttsImpl, trace, faults, speech, analysis, now, userKeys, userState, sessions, sessionsByUser,
                 runs, ops, calls, nextPhoto, lastPress, hist>>

\* the capture request of attempt i + 1 settles with out
AttemptReturn(out) ==
  /\ cap.pc = "request"
  /\ LET res == AttemptResult(cap.impl, out)
         c1 == [cap EXCEPT !.outcomes = Append(@, out)]
         evs1 == IF cap.impl = "camera"
                 THEN recordEvent(events, IF out.kind = "error"
                                          THEN <<"photo_request_error", out.msg>>
                                          ELSE <<"photo_request_ok">>)
                 ELSE events
     IN IF res.kind # "error"
        THEN /\ cap' = [c1 EXCEPT !.pc = "returned", !.result = <<res.kind, cap.i + 1>>]
             /\ events' = recordEvent(evs1, <<"photo_request_success", cap.i + 1>>)
        ELSE LET c2 == [c1 EXCEPT !.lastErr = LastErr(@, res.msg)]
                 evs2 == recordEvent(evs1, <<"photo_request_attempt_failed", cap.i + 1, res.msg>>)
             IN IF IsTerminal(res.msg)
                THEN LET t == ThrowLast(c2, evs2) IN cap' = t.c /\ events' = t.evs
                ELSE IF cap.i < cap.attempts - 1
                THEN /\ cap' = [c2 EXCEPT !.pc = "sleep",
                                          !.sleeps = Append(@, Backoff(cap.backoffMs, cap.i))]
                     /\ events' = evs2
                ELSE LET t == ThrowLast([c2 EXCEPT !.i = @ + 1], evs2)
                     IN cap' = t.c /\ events' = t.evs
  /\ UNCHANGED <<env, ttsImpl, trace, faults, speech, analysis, now, userKeys, userState, sessions, sessionsByUser,
                 runs, ops, calls, nextPhoto, lastPress, hist>>

\* the backoff sleep is over: i++, the loop test, the next attempt
BackoffDone ==
  /\ cap.pc = "sleep"
  /\ IF cap.i + 1 < cap.attempts
     THEN /\ cap' = [cap EXCEPT !.i = @ + 1, !.pc = "request", !.requests = @ + 1]
          /\ events' = AttemptStart(cap.impl, events, cap.i + 1)
     ELSE LET t == ThrowLast([cap EXCEPT !.i = @ + 1], events)
          IN cap' = t.c /\ events' = t.evs
  /\ UNCHANGED <<env, ttsImpl, trace, faults, speech, analysis, now, userKeys, userState, sessions, sessionsByUser,
                 runs, ops, calls, nextPhoto, lastPress, hist>>

\* no session yet; the event timeline is kept
InitCapture ==
  /\ InitCommon
  /\ env = DefaultConfig
  /\ ttsImpl = "A"
  /\ trace = TRUE
  /\ faults = TRUE
  /\ sessions = [s \in Sessions |-> "absent"]

NextCapture ==
  \/ \E impl \in CaptureImpls, s \in {"s1", "s2"}, attempts \in 1..MaxAttempts,
        backoffMs \in BackoffChoices : RequestPhotoRobust(impl, s, attempts, backoffMs)
  \/ \E out \in DeviceOutcomes : AttemptReturn(out)
  \/ BackoffDone

SpecCapture == InitCapture /\ [][NextCapture]_vars

(* ----------------------------- cachePhoto ------------------------------ *)
\* cachePhoto(photo, userId, state) up to its first await (the hash, then
\* the image libraries); the button handler has one call per user at a time
CachePhotoStart(u) ==
  /\ nextPhoto <= MaxCaptures
  /\ hist.caching[u] = 0
  /\ hist' = [hist EXCEPT !.captures[u] = Append(@, nextPhoto), !.caching[u] = nextPhoto]
  /\ nextPhoto' = nextPhoto + 1
  /\ UNCHANGED <<env, ttsImpl, trace, faults, speech, analysis, now, userKeys, userState, sessions, sessionsByUser,
                 runs, ops, calls, events, lastPress, cap>>

\* the rest of cachePhoto: push, trim
CachePhotoStore(u) ==
  /\ hist.caching[u] # 0
  /\ userState' = [userState EXCEPT
                     ![StateKey(u)].photoHistory = cachePhoto(@, hist.caching[u])]
  /\ hist' = [hist EXCEPT !.caching[u] = 0]
  /\ UNCHANGED <<env, ttsImpl, trace, faults, speech, analysis, now, userKeys, sessions, sessionsByUser,
                 runs, ops, calls, events, nextPhoto, lastPress, cap>>

InitPhotos ==
  /\ InitCommon
  /\ env = DefaultConfig
  /\ ttsImpl = "A"
  /\ trace = FALSE
  /\ faults = FALSE
  /\ sessions = [s \in Sessions |-> "absent"]

NextPhotos ==
  \/ \E u \in Users : CachePhotoStart(u)
  \/ \E u \in Users : CachePhotoStore(u)

SpecPhotos == InitPhotos /\ [][NextPhotos]_vars

(* ---------------------------- recordEvent ------------------------------ *)
\* a callback working for session s records an event; the event carries the
\* session and its number since the last clear.  The second session writes
\* while the buffer starts to fill and while it overflows.
RecordEvent(s) ==
  /\ hist.recorded < MaxRecorded
  /\ s = "s1" \/ hist.recorded < MixHead \/ hist.recorded >= MAX_EVENTS - MixTail
  /\ events' = recordEvent(events, <<s, hist.recorded + 1>>)
  /\ hist' = [hist EXCEPT !.recorded = @ + 1,
                          !.others = IF s = "s1" THEN @ ELSE @ + 1]
  /\ UNCHANGED <<env, ttsImpl, trace, faults, speech, analysis, now, userKeys, userState, sessions, sessionsByUser,
                 runs, ops, calls, nextPhoto, lastPress, cap>>

\* POST /api/events/clear
ClearEvents ==
  /\ hist.cleared < MaxClears
  /\ events' = <<>>
  /\ hist' = [hist EXCEPT !.recorded = 0, !.others = 0, !.cleared = @ + 1]
  /\ UNCHANGED <<env, ttsImpl, trace, faults, speech, analysis, now, userKeys, userState, sessions, sessionsByUser,
                 runs, ops, calls, nextPhoto, lastPress, cap>>

InitEvents ==
  /\ InitCommon
  /\ env = DefaultConfig
  /\ ttsImpl = "A"
  /\ trace = TRUE
  /\ faults = FALSE
  /\ sessions = [s \in Sessions |-> "absent"]

NextEvents ==
  \/ \E s \in {"s1", "s3"} : RecordEvent(s)
  \/ ClearEvents

SpecEvents == InitEvents /\ [][NextEvents]_vars

(* ------------------------- the event timeline -------------------------- *)
\* one user on one device, the default configuration, the timeline kept
InitTimeline ==
  /\ InitCommon
  /\ env = DefaultConfig
  /\ ttsImpl = "A"
  /\ trace = TRUE
  /\ faults = FALSE
  /\ sessions = [s \in Sessions |-> IF s = "s1" THEN "none" ELSE "absent"]

SpecTimeline == InitTimeline /\ [][NextCore]_vars

(* --------------------------- text chunking ---------------------------- *)
\* a text is a sequence of characters; these are the ones that matter to the
\* chunking functions: a letter, two sentence terminators, white space
Chars == {"a", ".", "?", " "}

Terminators == {".", "!", "?"}

IsSpace(c) == c = " "

Texts == UNION {[1..n -> Chars] : n \in 0..MaxTextLen}

\* the example of the chunking contract: three sentences of 200 characters
\* and the default maxCharsPerChunk of playTTSInChunks
Sentence200 == [i \in 1..200 |-> IF i = 200 THEN "." ELSE "a"]

ExampleText == Sentence200 \o <<" ">> \o Sentence200 \o <<" ">> \o Sentence200

ExampleLimit == 450

MinOf(a, b) == IF a <= b THEN a ELSE b

\* s.slice(a, b), 0 <= a <= b
slice(s, a, b) == SubSeq(s, a + 1, MinOf(b, Len(s)))

\* text.replace(/\s+/g, ' '): of every run of white space the first character stays
replaceWhitespace(text) ==
  LET kept == SelectSeq([i \in 1..Len(text) |->
                           <<text[i], i > 1 /\ IsSpace(text[i]) /\ IsSpace(text[i - 1])>>],
                        LAMBDA p : ~p[2])
  IN [i \in 1..Len(kept) |-> kept[i][1]]

RECURSIVE splitFrom(_, _)
\* the sentences of the normalised text t from position start on: the first
\* white space after a terminator ends a sentence and is dropped
splitFrom(t, start) ==
  LET seps == {i \in start..Len(t) : IsSpace(t[i]) /\ i > 1 /\ t[i - 1] \in Terminators}
      sep == CHOOSE i \in seps : \A j \in seps : i <= j
  IN IF seps = {} THEN <<SubSeq(t, start, Len(t))>>
     ELSE <<SubSeq(t, start, sep - 1)>> \o splitFrom(t, sep + 1)

\* t.split(/(?<=[.!?])\s+/) of a text whose white space is normalised
splitSentences(t) == splitFrom(t, 1)

\* the slices of a sentence longer than maxChars
hardSplit(s, maxChars) ==
  [j \in 1..((Len(s) + maxChars - 1) \div maxChars) |-> slice(s, (j - 1) * maxChars, j * maxChars)]

RECURSIVE pack(_, _, _, _, _)
\* the loop of splitIntoChunks over the sentences from the k-th on
pack(sentences, k, current, chunks, maxChars) ==
  IF k > Len(sentences)
  THEN IF current # <<>> THEN Append(chunks, current) ELSE chunks
  ELSE LET s == sentences[k]
           candidate == IF current # <<>> THEN current \o <<" ">> \o s ELSE s
           flushed == IF current # <<>> THEN Append(chunks, current) ELSE chunks
       IN IF s = <<>> THEN pack(sentences, k + 1, current, chunks, maxChars)
          ELSE IF Len(candidate) <= maxChars THEN pack(sentences, k + 1, candidate, chunks, maxChars)
          ELSE IF Len(s) <= maxChars THEN pack(sentences, k + 1, s, flushed, maxChars)
          ELSE pack(sentences, k + 1, <<>>, flushed \o hardSplit(s, maxChars), maxChars)

\* splitIntoChunks of log.ts
splitIntoChunks(text, maxChars) ==
  LET chunks == pack(splitSentences(replaceWhitespace(text)), 1, <<>>, <<>>, maxChars)
  IN IF chunks # <<>> THEN chunks ELSE <<text>>

\* s.lastIndexOf(c, from): the last 0-based index <= from that holds c, or -1
lastIndexOf(s, c, from) ==
  LET hits == {i \in 0..MinOf(from, Len(s) - 1) : s[i + 1] = c}
  IN IF hits = {} THEN -1 ELSE CHOOSE i \in hits : \A j \in hits : j <= i

\* s.trim()
trim(s) ==
  LET solid == {i \in 1..Len(s) : ~IsSpace(s[i])}
  IN IF solid = {} THEN <<>>
     ELSE SubSeq(s, CHOOSE i \in solid : \A j \in solid : i <= j,
                    CHOOSE i \in solid : \A j \in solid : j <= i)

RECURSIVE chunkLoop(_, _, _, _)
\* the while loop of chunkText; period > start + maxLen * 0.6 in tenths
chunkLoop(s, maxLen, start, parts) ==
  IF start >= Len(s) THEN parts
  ELSE LET end0 == MinOf(start + maxLen, Len(s))
           period == lastIndexOf(s, ".", end0)
           end == IF 10 * period > 10 * start + 6 * maxLen THEN period + 1 ELSE end0
       IN chunkLoop(s, maxLen, end, Append(parts, trim(slice(s, start, end))))

\* chunkText of services/tts
chunkText(s, maxLen) ==
  IF s = <<>> THEN <<>>
  ELSE IF Len(s) <= maxLen THEN <<s>>
  ELSE SelectSeq(chunkLoop(s, maxLen, 0, <<>>), LAMBDA part : part # <<>>)

\* playTTSInChunks has been called with the text, and splits it
Chunking ==
  /\ speech.pc = "called"
  /\ speech' = [speech EXCEPT !.pc = "chunked",
                              !.chunks = IF ttsImpl = "A" THEN splitIntoChunks(speech.text, speech.maxChars)
                                         ELSE chunkText(speech.text, speech.maxChars)]
  /\ UNCHANGED <<env, ttsImpl, trace, faults, analysis, now, userKeys, userState, sessions, sessionsByUser,
                 runs, ops, calls, events, nextPhoto, lastPress, cap, hist>>

\* any short text with any small limit, or the example
InitChunks ==
  /\ InitBase
  /\ env = DefaultConfig
  /\ ttsImpl \in {"A", "B"}
  /\ trace = FALSE
  /\ faults = FALSE
  /\ sessions = [s \in Sessions |-> "absent"]
  /\ \E text \in Texts \cup {ExampleText} :
       \E maxChars \in (1..MaxChunkChars) \cup {ExampleLimit} :
         /\ (text = ExampleText) = (maxChars = ExampleLimit)
         /\ speech = [text |-> text, maxChars |-> maxChars, chunks |-> <<>>, pc |-> "called"]

NextChunks == Chunking

SpecChunks == InitChunks /\ [][NextChunks]_vars

(* ------------------------ one run, end to end ------------------------- *)
\* the limit playTTSInChunks hands to its chunking function
ChunkLimit == IF ttsImpl = "A" THEN 450 ELSE 350

\* what analyzeImageService returns, as lengths: the answer is absent (-1),
\* empty, or of some length around ANSWER_LIMIT; the analysis is never empty
AnswerLengths == {-1, 0, 120, 400, 599, 600, 700}
AnalysisLengths == {300, 900}
AnalysisResults == [answer : AnswerLengths, text : AnalysisLengths]

\* a selection that lets an answer of exactly ANSWER_LIMIT characters through
ttsTextUpToLimit(result) ==
  IF result.answer > 0 /\ result.answer <= ANSWER_LIMIT
  THEN [src |-> "answer", length |-> result.answer]
  ELSE [src |-> "analysis", length |-> result.text]

\* const ttsText = (answer && answer.length < 600) ? answer : analysis
ttsText(result) ==
  IF result.answer > 0 /\ result.answer < ANSWER_LIMIT
  THEN [src |-> "answer", length |-> result.answer]
  ELSE [src |-> "analysis", length |-> result.text]

\* the numbers of chunks a text of this length can come back in: one when it
\* fits the limit, otherwise at least as many as its length needs
ChunkCounts(length) ==
  IF length <= ChunkLimit THEN {1}
  ELSE {(length + ChunkLimit - 1) \div ChunkLimit, (length + ChunkLimit - 1) \div ChunkLimit + 1}

\* the run calls requestPhotoRobust(session, recordEvent, {attempts: 3, backoffMs: 750})
CaptureStart(r) ==
  /\ runs[r].pc = "capture"
  /\ RequestPhotoRobust("camera", runs[r].session, 3, 750)

\* requestPhotoRobust has returned the photo or thrown, and the run goes on
CaptureJoin(r) ==
  /\ cap.pc \in {"returned", "thrown"}
  /\ CaptureReturn(r, IF cap.pc = "returned" THEN "ok" ELSE "error")

\* analyzeImageService returns result: the results are stored, the text to
\* speak is selected and handed to playTTSInChunks, which splits it into n chunks
AnalysisDone(r, result, n) ==
  /\ runs[r].pc = "analysis" /\ runs[r].dev = "active"
  /\ n \in ChunkCounts(ttsText(result).length)
  /\ LET run == runs[r]
         k == StateKey(run.user)
         sel == ttsText(result)
     IN /\ Apply(withAudioQueue(
                   [Machine EXCEPT !.us[k].latestAnalysis = run.photo,
                                   !.us[k].analysisByRequestId = @ \cup {run.photo},
                                   !.runs[r].pc = "speaking", !.runs[r].dev = "none",
                                   !.evs = recordAll(@, << <<"openai_response_ok", result.text, result.answer > 0>>,
                                                           <<"tts_sent_to_elevenlabs", run.photo>> >>)],
                   run.user, r, "chunks", <<>>, "pipeline", "tts_chunk", n))
        /\ analysis' = [answer |-> result.answer, text |-> result.text, spoken |-> sel.src,
                        length |-> sel.length, dispatches |-> analysis.dispatches + 1]
  /\ UNCHANGED <<env, ttsImpl, trace, faults, speech, cap, hist, now, userKeys, sessions, sessionsByUser, calls, lastPress>>

\* one device, one press at a time until the capture has begun; the camera
\* times out or delivers, the audio calls succeed
InitScenario ==
  /\ InitCommon
  /\ env = DefaultConfig
  /\ ttsImpl \in {"A", "B"}
  /\ trace = TRUE
  /\ faults = TRUE
  /\ sessions = [s \in Sessions |-> IF s = "s1" THEN "none" ELSE "absent"]

NextScenario ==
  \/ OnSession("s1")
  \/ cap.pc = "idle" /\ Press("s1", "short")
  \/ \E r \in Slots : SleepDone(r)
  \/ \E r \in Slots : CaptureStart(r)
  \/ \E out \in {Delivered("photo"), Rejected(ERR_TIMEOUT)} : AttemptReturn(out)
  \/ BackoffDone
  \/ \E r \in Slots : CaptureJoin(r)
  \/ \E r \in Slots, result \in AnalysisResults :
       \E n \in ChunkCounts(ttsText(result).length) : AnalysisDone(r, result, n)
  \/ \E u \in Users, i \in 1..MaxOps : DeviceReturn(u, i, "ok")
  \/ \E u \in Users, i \in 1..MaxOps : TailDone(u, i)

SpecScenario == InitScenario /\ [][NextScenario]_vars

(* --------------------------- ensureUserState --------------------------- *)
\* an ensureUserState that constructs and stores a state on every call
ensureUserStateFresh(keys, us, userId) ==
  [keys |-> keys \cup {StateKey(userId)},
   us |-> [us EXCEPT ![StateKey(userId)] = DefaultState],
   created |-> TRUE]

\* ensureUserState(userId) over the map (its keys and values): get, and when
\* there is none construct the default state and set it
ensureUserStateOn(keys, us, userId) ==
  IF StateKey(userId) \in keys
  THEN [keys |-> keys, us |-> us, created |-> FALSE]
  ELSE [keys |-> keys \cup {StateKey(userId)},
        us |-> [us EXCEPT ![StateKey(userId)] = DefaultState],
        created |-> TRUE]

\* a call of ensureUserState(u): from onSession, withAudioQueue or a route
EnsureCall(u) ==
  /\ hist.ensured[u] < MaxEnsure
  /\ LET e == ensureUserStateOn(userKeys, userState, u)
         id == IF e.created THEN hist.made[u] + 1 ELSE hist.held[u]
     IN /\ userKeys' = e.keys
        /\ userState' = e.us
        /\ hist' = [hist EXCEPT !.made[u] = IF e.created THEN @ + 1 ELSE @,
                                !.held[u] = id,
                                !.refs[u] = @ \cup {id},
                                !.ensured[u] = @ + 1]
  /\ UNCHANGED <<env, ttsImpl, trace, faults, speech, analysis, now, sessions, sessionsByUser,
                 runs, ops, calls, events, nextPhoto, lastPress, cap>>

\* a caller writes through the object a call has returned to it: onSession
\* sets welcomePlayed, the button handler sets and clears isProcessing; the
\* write is seen in the map when the map holds that object
WriteState(u, id, field) ==
  /\ id \in hist.refs[u]
  /\ userState' = IF id # hist.held[u] THEN userState
                  ELSE IF field = "welcomePlayed"
                  THEN [userState EXCEPT ![StateKey(u)].welcomePlayed = TRUE]
                  ELSE [userState EXCEPT ![StateKey(u)].isProcessing = ~@]
  /\ hist' = IF field = "welcomePlayed" THEN [hist EXCEPT !.welcomed[u] = TRUE] ELSE hist
  /\ UNCHANGED <<env, ttsImpl, trace, faults, speech, analysis, now, userKeys, sessions, sessionsByUser,
                 runs, ops, calls, events, nextPhoto, lastPress, cap>>

InitStates ==
  /\ InitCommon
  /\ env = DefaultConfig
  /\ ttsImpl = "A"
  /\ trace = FALSE
  /\ faults = FALSE
  /\ sessions = [s \in Sessions |-> "absent"]

NextStates ==
  \/ \E u \in Users : EnsureCall(u)
  \/ \E u \in Users, id \in 1..MaxEnsure, field \in {"welcomePlayed", "isProcessing"} : WriteState(u, id, field)

SpecStates == InitStates /\ [][NextStates]_vars

(* ------------------------------ long press ----------------------------- *)
\* one device; short and long presses
InitPress ==
  /\ InitCommon
  /\ env = DefaultConfig
  /\ ttsImpl = "A"
  /\ trace = FALSE
  /\ faults = FALSE
  /\ sessions = [s \in Sessions |-> IF s = "s1" THEN "none" ELSE "absent"]

NextPress ==
  \/ NextCore
  \/ Press("s1", "long")

SpecPress == InitPress /\ [][NextPress]_vars

(* ------------------------- session start and stop --------------------- *)
\* an onStop that also clears the processing flag of the user
OnStopClearing(s) ==
  /\ sessions[s] = "active"
  /\ sessions' = [sessions EXCEPT ![s] = "stopped"]
  /\ sessionsByUser' = [sessionsByUser EXCEPT ![userOf[s]] = "none"]
  /\ userState' = [userState EXCEPT ![StateKey(userOf[s])].isProcessing = FALSE]
  /\ UNCHANGED <<env, ttsImpl, trace, faults, speech, analysis, cap, hist, now, userKeys,
                 runs, ops, calls, events, nextPhoto, lastPress>>

\* onStop(sessionId, userId, reason): the session is over (its button
\* subscription goes with it) and sessionsByUser.delete(userId); the flags
\* shuttingDown and isProcessing it writes are fields of the app that
\* nothing reads, and _vtActiveSessions is the number of active sessions
OnStop(s) ==
  /\ sessions[s] = "active"
  /\ sessions' = [sessions EXCEPT ![s] = "stopped"]
  /\ sessionsByUser' = [sessionsByUser EXCEPT ![userOf[s]] = "none"]
  /\ UNCHANGED <<env, ttsImpl, trace, faults, speech, analysis, cap, hist, now, userKeys, userState,
                 runs, ops, calls, events, nextPhoto, lastPress>>

\* one user with two devices that come and go
InitSessions ==
  /\ InitCommon
  /\ env = DefaultConfig
  /\ ttsImpl = "A"
  /\ trace = FALSE
  /\ faults = FALSE
  /\ sessions = [s \in Sessions |-> IF userOf[s] = "u1" THEN "none" ELSE "absent"]

NextSessions ==
  \/ NextCore
  \/ \E s \in Sessions : OnStop(s)

SpecSessions == InitSessions /\ [][NextSessions]_vars

(* --------------------------- the greeting ----------------------------- *)
\* sessions of two users start and stop while the clock runs past the
\* debounce window; no button is pressed
InitWelcome ==
  /\ InitCommon
  /\ env \in Configs
  /\ ttsImpl = "A"
  /\ trace = FALSE
  /\ faults = FALSE
  /\ sessions = [s \in Sessions |-> "none"]

NextWelcome ==
  \/ \E s \in Sessions : OnSession(s)
  \/ \E s \in Sessions : OnStop(s)
  \/ Tick
  \/ \E u \in Users, i \in 1..MaxOps : DeviceReturn(u, i, "ok")
  \/ \E u \in Users, i \in 1..MaxOps : TailDone(u, i)

SpecWelcome == InitWelcome /\ [][NextWelcome]_vars

(* ---------------- speakWithEvent calls that overlap -------------------- *)
\* a comparison that stores the fingerprint without the timestamp
DedupHashOnly(st, hash, t) ==
  IF IsDuplicate(st, hash, t)
  THEN [sup |-> TRUE, st |-> st]
  ELSE [sup |-> FALSE, st |-> [st EXCEPT !.lastTTSHash = hash]]

\* the comparison and the update of speakWithEvent, one continuation:
\* [sup, st]
Dedup(st, hash, t) ==
  IF IsDuplicate(st, hash, t)
  THEN [sup |-> TRUE, st |-> st]
  ELSE [sup |-> FALSE, st |-> [st EXCEPT !.lastTTSHash = hash, !.lastTTSAt = t]]

\* the number of calls that have made their comparison
Compared == Cardinality({c \in 1..Len(calls) : calls[c].cmp > 0})

\* the call after its comparison at time now
AfterDedup(call, d) ==
  [call EXCEPT !.pc = IF d.sup THEN "suppressed" ELSE "speaking",
               !.sup = d.sup, !.cmp = Compared + 1, !.at = now]

\* speakWithEvent is called while other calls may be in progress: log.ts
\* records the start and awaits hashText; part_002 compares, updates and
\* records before its first await
RaceEnter(u, text, voice) ==
  /\ Len(calls) < MaxCalls
  /\ LET k == StateKey(u)
         call == [user |-> u, text |-> text, voice |-> voice, pc |-> "hashing",
                  sup |-> FALSE, cmp |-> 0, at |-> 0]
         d == Dedup(userState[k], Fingerprint(text, voice), now)
     IN IF ttsImpl = "A"
        THEN /\ calls' = Append(calls, call)
             /\ events' = recordEvent(events, <<"tts_test", "start">>)
             /\ UNCHANGED userState
        ELSE /\ calls' = Append(calls, AfterDedup(call, d))
             /\ events' = recordEvent(events, <<"tts_test", IF d.sup THEN "suppressed" ELSE "start">>)
             /\ userState' = [userState EXCEPT ![k] = d.st]
  /\ UNCHANGED <<env, ttsImpl, trace, faults, speech, analysis, cap, hist, now, userKeys, sessions, sessionsByUser,
                 runs, ops, nextPhoto, lastPress>>

\* hashText resolves (log.ts): the comparison, and the update or the return
RaceHashed(c) ==
  /\ c \in 1..Len(calls)
  /\ calls[c].pc = "hashing"
  /\ LET k == StateKey(calls[c].user)
         d == Dedup(userState[k], Fingerprint(calls[c].text, calls[c].voice), now)
     IN /\ calls' = [calls EXCEPT ![c] = AfterDedup(calls[c], d)]
        /\ events' = IF d.sup THEN recordEvent(events, <<"tts_duplicate_suppressed">>) ELSE events
        /\ userState' = [userState EXCEPT ![k] = d.st]
  /\ UNCHANGED <<env, ttsImpl, trace, faults, speech, analysis, cap, hist, now, userKeys, sessions, sessionsByUser,
                 runs, ops, nextPhoto, lastPress>>

\* session.audio.speak of call c returns or throws
RaceReturn(c, res) ==
  /\ c \in 1..Len(calls)
  /\ calls[c].pc = "speaking"
  /\ res = "ok" \/ faults
  /\ calls' = [calls EXCEPT ![c].pc = res]
  /\ events' = recordEvent(events, <<"tts_test", IF res = "ok" THEN "done" ELSE "error">>)
  /\ UNCHANGED <<env, ttsImpl, trace, faults, speech, analysis, cap, hist, now, userKeys, userState, sessions, sessionsByUser,
                 runs, ops, nextPhoto, lastPress>>

\* the voice of the overlapping calls
RaceVoices == {"pipeline"}

\* one user, both implementations, a device that does not fail
InitRace ==
  /\ InitCommon
  /\ env = DefaultConfig
  /\ ttsImpl \in {"A", "B"}
  /\ trace = FALSE
  /\ faults = FALSE
  /\ sessions = [s \in Sessions |-> "absent"]

NextRace ==
  \/ \E text \in SpeakTexts, voice \in RaceVoices : RaceEnter("u1", text, voice)
  \/ \E c \in 1..MaxCalls : RaceHashed(c)
  \/ \E c \in 1..MaxCalls, res \in Outcomes : RaceReturn(c, res)
  \/ Tick

SpecRace == InitRace /\ [][NextRace]_vars

(* ------------------- a photo that comes too late ----------------------- *)
\* Promise.race of attempt j has settled
Settled(c, j) == j <= Len(c.outcomes)

\* a response slot shared by the attempts: the late photo completes the
\* request that is waiting
LateArrivalShared(c, j) ==
  IF c.pc = "request"
  THEN [c EXCEPT !.pc = "returned", !.result = <<"photo", j>>, !.outcomes = Append(@, Delivered("photo"))]
  ELSE c

\* the promise of session.camera.requestPhoto of attempt j resolves: the
\* race it was passed to takes it when it has not settled yet
LateArrival(c, j) ==
  IF Settled(c, j)
  THEN c
  ELSE [c EXCEPT !.pc = "returned", !.result = <<"photo", j>>, !.outcomes = Append(@, Delivered("photo"))]

\* the device delivers the photo of a request whose timer has fired
LateDelivery(j) ==
  /\ j \in 1..Len(cap.outcomes)
  /\ cap.outcomes[j] = Rejected(ERR_TIMEOUT)
  /\ \A l \in hist.late : l.of # j
  /\ cap' = LateArrival(cap, j)
  /\ hist' = [hist EXCEPT !.late = @ \cup {[of |-> j, during |-> cap.requests, pc |-> cap.pc]}]
  /\ UNCHANGED <<env, ttsImpl, trace, faults, speech, analysis, now, userKeys, userState, sessions, sessionsByUser,
                 runs, ops, calls, events, nextPhoto, lastPress>>

\* the caller of requestPhotoRobust caches the photo it got
PhotoCached ==
  /\ cap.pc = "returned"
  /\ cap' = [cap EXCEPT !.pc = "cached"]
  /\ userState' = [userState EXCEPT ![StateKey(userOf[cap.session])].photoHistory = cachePhoto(@, cap.result)]
  /\ events' = recordEvent(events, <<"photo_received", cap.result>>)
  /\ UNCHANGED <<env, ttsImpl, trace, faults, speech, analysis, now, userKeys, sessions, sessionsByUser,
                 runs, ops, calls, nextPhoto, lastPress, hist>>

NextLate ==
  \/ NextCapture
  \/ \E j \in 1..MaxAttempts : LateDelivery(j)
  \/ PhotoCached

SpecLate == InitCapture /\ [][NextLate]_vars

(* ------------------------------ claims -------------------------------- *)
LiveRunsOf(k) == {r \in Slots : Live(runs[r]) /\ StateKey(runs[r].user) = k}

\* C1: for every user at most one pipeline run is in progress at any time; a
\* short press delivered while the user's isProcessing flag is set starts no
\* run, whichever session of the user it comes from
C1_MutualExclusion == \A k \in Users : Cardinality(LiveRunsOf(k)) <= 1

\* a press from the second device of u1 was dropped while a run started
\* from the first device holds the guard
C1_Witness ==
  /\ lastPress = [what |-> "busy", session |-> "s2"]
  /\ \E r \in Slots : Live(runs[r]) /\ runs[r].session = "s1"

\* C2: isProcessing is true from the acceptance of a press until the cleanup
\* of that run and false afterwards, on every exit path
C2_CleanupOnEveryPath == \A k \in Users : userState[k].isProcessing <=> LiveRunsOf(k) # {}

\* a run has ended through the failure of its own apology and the flag is clear
C2_Witness ==
  \E r \in Slots : /\ runs[r].pc = "done" /\ runs[r].exit = "apology_failed"
                   /\ ~userState[StateKey(runs[r].user)].isProcessing

\* C3: after a press is accepted isProcessing eventually becomes false, even
\* if a collaborator call of the run never returns
C3_WatchdogLiveness ==
  \A k \in Users : userState[k].isProcessing ~> ~userState[k].isProcessing

\* C4: for one user the operations passed to withAudioQueue never execute at
\* the same time
C4_AudioNonOverlap ==
  \A u \in Users : Cardinality({i \in 1..Len(ops[u]) : ops[u][i].st = "fn"}) <= 1

\* C5: the operations of one user start and complete in submission order: no
\* operation has completed while one submitted before it is still executing
C5_AudioFifo ==
  \A u \in Users : \A i, j \in 1..Len(ops[u]) :
     i < j => ~(ops[u][i].st = "fn" /\ ops[u][j].st = "tail")


\* C6: when the operation passed to withAudioQueue throws, the caller gets
\* the error (the run goes to the catch of the button handler with it, or,
\* when the operation is the apology itself, ends), and the slot is
\* released: once no operation of a user is in flight the audioChain of the
\* user is settled
C6_QueueFailureSemantics ==
  /\ [](\A u \in Users : ops[u] = <<>> => userState[StateKey(u)].audioChain = {})
  /\ [][\A u \in Users, i \in 1..MaxOps :
          (/\ i <= Len(ops[u])
           /\ ops[u][i].owner # 0
           /\ ~(ops[u][i].kind = "chunks" /\ ttsImpl = "A")
           /\ ~(runs[ops[u][i].owner].pc = "chime" /\ runs[ops[u][i].owner].mode = "capture_only")
           /\ DeviceReturn(u, i, "error"))
          => LET r == ops[u][i].owner
             IN IF runs[r].pc = "apology"
                THEN runs'[r].pc = "done" /\ runs'[r].exit = "apology_failed"
                ELSE /\ runs'[r].pc = "apology"
                     /\ runs'[r].err = (IF ops[u][i].kind = "play" THEN "play_err" ELSE "speak_err")
                     /\ ops'[u] # <<>>]_vars

\* the chime of a run has thrown, the run is in the catch of the handler
\* with that error, and nothing but the apology is in the queue of the user
C6_Witness ==
  \E r \in Slots : /\ runs[r].pc = "apology" /\ runs[r].err = "play_err"
                   /\ Len(ops[runs[r].user]) = 1
                   /\ userState[StateKey(runs[r].user)].audioChain = {1}

\* C7: every speak and playAudio call of a pipeline run is made inside
\* withAudioQueue: a run never has a device call of its own in progress
C7_AllAudioQueued ==
  \A r \in Slots : ~(runs[r].pc = "nocam" /\ runs[r].dev \in {"active", "hung"})


C9_DuplicateSuppression ==
  \A c \in 1..Len(calls) :
    LET prior == {d \in 1..(c - 1) : calls[d].user = calls[c].user /\ ~calls[d].sup}
        last == CHOOSE d \in prior : \A e \in prior : e <= d
    IN /\ calls[c].sup => calls[c].dev = "none"
       /\ calls[c].sup <=>
            /\ prior # {}
            /\ calls[last].text = calls[c].text
            /\ VoiceJson(calls[last].voice) = VoiceJson(calls[c].voice)
            /\ calls[c].at - calls[last].at < AUDIO_DUPLICATE_SUPPRESS_MS

\* C10: lastTTSHash and lastTTSAt are written only after the speak call has
\* succeeded: while the call is in progress and after it has failed they
\* hold the values they had before the call
C10_UpdateOnSuccessOnly ==
  \A c \in 1..Len(calls) :
    (c = Len(calls) /\ calls[c].dev \in {"active", "error"})
    => /\ userState[StateKey(calls[c].user)].lastTTSHash = calls[c].hashBefore
       /\ userState[StateKey(calls[c].user)].lastTTSAt = calls[c].atBefore


\* the errors the claims call transient, and those they call terminal
TransientErrors == {ERR_TIMEOUT, ERR_BUSY}
TerminalErrors == {ERR_PERMISSION, ERR_NOT_AVAILABLE}

\* the first m capture attempts have failed with transient errors
AllTransient(m) ==
  \A j \in 1..m : cap.outcomes[j].kind = "error" /\ cap.outcomes[j].msg \in TransientErrors

\* C11: when the first k attempts fail with transient errors (k < attempts)
\* the controller goes on to attempt k+1, and when that attempt delivers a
\* photo requestPhotoRobust returns this photo with exactly k+1 capture
\* requests issued
C11_FirstSuccessWins ==
  LET n == Len(cap.outcomes)
  IN /\ (n >= 1 /\ cap.outcomes[n].kind = "photo" /\ AllTransient(n - 1))
          => cap.pc = "returned" /\ cap.result = <<"photo", n>> /\ cap.requests = n
     /\ (cap.pc # "idle" /\ hasCamera[cap.session] /\ n < cap.attempts /\ AllTransient(n))
          => \/ cap.pc = "request" /\ cap.requests = n + 1
             \/ cap.pc = "sleep" /\ cap.requests = n

\* two transient failures, then a photo, with attempts = 3
C11_Witness ==
  /\ cap.attempts = 3 /\ cap.pc = "returned" /\ cap.requests = 3
  /\ cap.outcomes = <<Rejected(ERR_TIMEOUT), Rejected(ERR_BUSY), Delivered("photo")>>

\* C12: when an attempt fails with a permission or not-available error
\* requestPhotoRobust throws that error with no further capture request and
\* no backoff sleep after it, whatever attempts is
C12_TerminalFailure ==
  LET n == Len(cap.outcomes)
  IN (n >= 1 /\ cap.outcomes[n].kind = "error" /\ cap.outcomes[n].msg \in TerminalErrors)
       => /\ cap.pc = "thrown" /\ cap.lastErr = cap.outcomes[n].msg
          /\ cap.requests = n /\ Len(cap.sleeps) = n - 1

\* a permission error on attempt 1 of 3
C12_Witness ==
  /\ cap.attempts = 3 /\ cap.pc = "thrown" /\ cap.requests = 1 /\ cap.sleeps = <<>>
  /\ cap.outcomes = <<Rejected(ERR_PERMISSION)>>

\* C13: on a device without a camera requestPhotoRobust throws
\* camera_not_available at once: no capture request, no backoff
C13_NoCameraFailsAtOnce ==
  (cap.pc # "idle" /\ ~hasCamera[cap.session])
    => /\ cap.pc = "thrown" /\ cap.lastErr = ERR_NOT_AVAILABLE
       /\ cap.requests = 0 /\ cap.outcomes = <<>> /\ cap.sleeps = <<>>

\* requestPhotoRobust was called with attempts = 3 for the device without camera
C13_Witness == cap.session = "s2" /\ cap.attempts = 3 /\ cap.pc = "thrown"

\* C14: when all the attempts fail with transient errors requestPhotoRobust
\* has issued exactly attempts capture requests and throws, once, the error
\* of the last attempt
C14_Exhaustion ==
  LET n == Len(cap.outcomes)
  IN (n >= 1 /\ n = cap.attempts /\ AllTransient(n))
       => /\ cap.pc = "thrown" /\ cap.requests = cap.attempts
          /\ cap.lastErr = cap.outcomes[n].msg
          /\ Cardinality({j \in 1..Len(events) :
                            events[j][1] = "photo_request_failed_all_attempts"}) = 1

\* three attempts have failed, the last one with another error than the first
C14_Witness ==
  /\ cap.pc = "thrown" /\ cap.lastErr = ERR_BUSY
  /\ cap.outcomes = <<Rejected(ERR_TIMEOUT), Rejected(ERR_TIMEOUT), Rejected(ERR_BUSY)>>

\* C15: the backoff sleeps are backoffMs * 1, backoffMs * 2, ... : one after
\* each transient failure that leaves attempts, none after the final
\* attempt, a terminal failure or a success
C15_LinearBackoff ==
  LET n == Len(cap.outcomes)
  IN (\A j \in 1..n : cap.outcomes[j].kind # "empty")
       => /\ \A j \in 1..Len(cap.sleeps) : cap.sleeps[j] = cap.backoffMs * j
          /\ Len(cap.sleeps) = Cardinality({j \in 1..n : /\ cap.outcomes[j].kind = "error"
                                                         /\ cap.outcomes[j].msg \in TransientErrors
                                                         /\ j < cap.attempts})

\* three transient failures with backoffMs = 750: two sleeps, none after the last
C15_Witness ==
  /\ cap.attempts = 3 /\ cap.pc = "thrown" /\ Len(cap.outcomes) = 3
  /\ cap.sleeps = <<750, 1500>>

\* C16: an attempt whose response has an empty payload is a failed attempt:
\* requestPhotoRobust never returns the empty photo
C16_EmptyPayloadFails ==
  \A n \in 1..Len(cap.outcomes) :
    cap.outcomes[n].kind = "empty" => ~(cap.pc = "returned" /\ cap.result = <<"empty", n>>)


\* C17: the photoHistory of a user holds at most 10 photos: the most recent
\* min(n, 10) of the n photos cached for the user, in capture order
C17_BoundedHistory ==
  \A u \in Users :
    LET h == userState[StateKey(u)].photoHistory
        c == hist.captures[u]
        n == IF hist.caching[u] = 0 THEN Len(c) ELSE Len(c) - 1
    IN /\ Len(h) <= 10
       /\ Len(h) = IF n < 10 THEN n ELSE 10
       /\ \A j \in 1..Len(h) : h[j] = c[n - Len(h) + j]

\* 15 photos cached for u1: the history is captures 6 to 15
C17_Witness ==
  /\ Len(hist.captures["u1"]) = 15 /\ hist.caching["u1"] = 0
  /\ userState["u1"].photoHistory = <<6, 7, 8, 9, 10, 11, 12, 13, 14, 15>>


\* C18: the event buffer holds at most 200 events: the most recent
\* min(n, 200) of the n events recorded since the last clear, in record
\* order, whichever sessions they were written for
C18_EventRing ==
  /\ Len(events) <= 200
  /\ Len(events) = IF hist.recorded < 200 THEN hist.recorded ELSE 200
  /\ \A j \in 1..Len(events) : events[j][2] = hist.recorded - Len(events) + j
  /\ hist.recorded <= 200 => Cardinality({j \in 1..Len(events) : events[j][1] = "s3"}) = hist.others

\* 203 events recorded after a clear, the first three for the second
\* session: they are gone, the buffer starts with event 4 and holds the
\* events the two sessions wrote while it overflowed
C18_Witness ==
  /\ hist.cleared = 1 /\ hist.recorded = 203 /\ hist.others = 5
  /\ Len(events) = 200 /\ events[1] = <<"s1", 4>>
  /\ events[199] = <<"s3", 202>> /\ events[200] = <<"s1", 203>>


\* the audio of the pipeline stages, and the one a run at pc may have in flight
StageTags == {"tts_capture_prompt", "chime", "tts_analyzing", "tts_chunk"}
StageTagAt(pc) ==
  CASE pc = "prompt" -> {"tts_capture_prompt"}
    [] pc = "chime" -> {"chime"}
    [] pc = "analyzing" -> {"tts_analyzing"}
    [] pc = "speaking" -> {"tts_chunk"}
    [] OTHER -> {}

\* C19: the stages of a run follow each other: while the capture is in
\* progress the prompt is over; from the chime on the photo of the run is in
\* the history; while the analysis is in progress the chime and "Analyzing"
\* are over; the explanation is spoken only once the analysis of the photo is
\* stored; and at any time only the audio of the current stage is in flight
C19_StageOrder ==
  /\ \A u \in Users : \A i \in 1..Len(ops[u]) :
       ops[u][i].tag \in StageTags
         => \E r \in Slots : /\ Live(runs[r]) /\ runs[r].user = u
                             /\ ops[u][i].tag \in StageTagAt(runs[r].pc)
  /\ \A r \in Slots :
       LET st == userState[StateKey(runs[r].user)]
       IN /\ runs[r].pc \in {"chime", "analyzing", "analysis", "speaking"}
               => /\ runs[r].photo # 0
                  /\ \E j \in 1..Len(st.photoHistory) : st.photoHistory[j] = runs[r].photo
          /\ runs[r].pc = "speaking" => runs[r].photo \in st.analysisByRequestId
          /\ runs[r].pc \in {"prompt", "sleep", "capture"} => runs[r].photo = 0

\* the success path at its last stage: prompt, chime and "Analyzing" are
\* over, the photo and its analysis are stored, the explanation is spoken
C19_Witness ==
  /\ env = DefaultConfig
  /\ \E r \in Slots :
       /\ runs[r].pc = "speaking" /\ runs[r].user = "u1"
       /\ Len(ops["u1"]) = 1 /\ ops["u1"][1].tag = "tts_chunk" /\ ops["u1"][1].st = "fn"
       /\ runs[r].photo \in userState["u1"].analysisByRequestId


\* C20: a short press that finds isProcessing set is dropped: it records no
\* event, starts no audio and no capture, and changes nothing of the state
\* of the user; and a run starts only in the step of a short press that
\* finds the flag clear, never when the run in flight ends
C20_BusyPressDropped ==
  [][/\ \A s \in Sessions :
          (Press(s, "short") /\ userState[StateKey(userOf[s])].isProcessing)
          => UNCHANGED <<userState, userKeys, runs, ops, events, nextPhoto, sessions,
                         sessionsByUser, cap, hist>>
     /\ \A r \in Slots :
          (~Live(runs[r]) /\ Live(runs'[r]))
          => \E s \in Sessions : /\ Press(s, "short")
                                 /\ ~userState[StateKey(userOf[s])].isProcessing
                                 /\ runs'[r].session = s]_vars

\* a press on s1 was dropped while the run started from s1 was capturing
C20_Witness ==
  /\ lastPress = [what |-> "busy", session |-> "s1"]
  /\ events # <<>>
  /\ \E r \in Slots : runs[r].pc = "capture" /\ runs[r].session = "s1"

\* C21: a failure of any stage of a run (the prompt, the chime, 'Analyzing',
\* the capture, the analysis, the explanation or one of its chunks) takes the
\* run to the catch of the button handler, which issues the apology: no
\* failing run goes on or ends as complete
C21_FailureLeadsToApology ==
  /\ [][\A u \in Users, i \in 1..MaxOps :
          (/\ i <= Len(ops[u])
           /\ ops[u][i].owner # 0
           /\ runs[ops[u][i].owner].pc # "apology"
           /\ DeviceReturn(u, i, "error"))
          => /\ runs'[ops[u][i].owner].pc = "apology"
             /\ runs'[ops[u][i].owner].err # "none"]_vars
  /\ [][\A r \in Slots : CaptureReturn(r, "error") \/ AnalysisReturn(r, "error", 1)
                          => runs'[r].pc = "apology" /\ runs'[r].err # "none"]_vars

\* C22: the apology is best effort: a failure of the apology speak call stays
\* inside the button handler, so no run ends with an error thrown out of it
C22_ApologyFailureSwallowed ==
  \A r \in Slots : runs[r].thrown = "none"

\* C23: a failure of the chime is logged and goes no further: no run is in
\* the catch of the button handler, or has ended through it, with the error
\* of playAudio
C23_ChimeFailureContained ==
  \A r \in Slots : runs[r].err # "play_err"

\* C24: every chunk the chunking function returns is at most maxChars long,
\* and a text that is one sentence longer than the limit comes back in
\* slices of exactly maxChars characters, the last one possibly shorter
C24_ChunkLengthBound ==
  speech.pc = "chunked" =>
    /\ \A j \in 1..Len(speech.chunks) : Len(speech.chunks[j]) <= speech.maxChars
    /\ (\A i \in 1..Len(speech.text) : ~IsSpace(speech.text[i])) /\ Len(speech.text) > speech.maxChars
         => \A j \in 1..(Len(speech.chunks) - 1) : Len(speech.chunks[j]) = speech.maxChars

RECURSIVE JoinChunks(_)
\* the chunks with a single space between two of them
JoinChunks(chunks) ==
  IF chunks = <<>> THEN <<>>
  ELSE IF Len(chunks) = 1 THEN chunks[1]
  ELSE chunks[1] \o <<" ">> \o JoinChunks(Tail(chunks))

RemoveSpaces(t) == SelectSeq(t, LAMBDA c : ~IsSpace(c))

\* no sentence of the text is longer than the limit
SentencesFit(text, maxChars) ==
  \A j \in 1..Len(splitSentences(replaceWhitespace(text))) :
    Len(splitSentences(replaceWhitespace(text))[j]) <= maxChars

\* C25: the chunks hold the content of the text, all of it, once and in
\* order; when no sentence has to be hard-split, the chunks joined with
\* single spaces are the whitespace-normalised text, and a chunk is closed
\* only when the next sentence does not fit any more; the three sentences of
\* the example come back as sentences 1 and 2 together, then sentence 3
C25_ChunkContent ==
  speech.pc = "chunked" =>
    /\ RemoveSpaces(JoinChunks(speech.chunks)) = RemoveSpaces(speech.text)
    /\ SentencesFit(speech.text, speech.maxChars) =>
         /\ trim(JoinChunks(speech.chunks)) = trim(replaceWhitespace(speech.text))
         /\ \A j \in 1..(Len(speech.chunks) - 1) :
              Len(speech.chunks[j]) + 1 + Len(splitSentences(speech.chunks[j + 1])[1]) > speech.maxChars
    /\ speech.text = ExampleText /\ speech.maxChars = ExampleLimit =>
         speech.chunks = <<Sentence200 \o <<" ">> \o Sentence200, Sentence200>>

\* C26: the chunks of an utterance are spoken one after the other and
\* alone: while the speak call of a chunk is in progress no other audio
\* operation of the user (of another submitter, or another chunk) is in
\* progress
C26_ChunksSpokenAlone ==
  \A u \in Users : \A i, j \in 1..Len(ops[u]) :
    i # j /\ ops[u][i].kind = "chunks" /\ ops[u][i].st = "fn" /\ ops[u][i].dev = "active"
      => ~(ops[u][j].st = "fn" /\ ops[u][j].dev = "active")

\* C27: when the speak call of a chunk fails, the dispatch stops there (the
\* operation is over without another chunk spoken) and the failure is
\* thrown to its caller: the run that awaits the dispatch is in the catch
\* of the button handler with the speak error
C27_ChunkFailurePropagated ==
  [][\A u \in Users, i \in 1..MaxOps :
       (/\ i <= Len(ops[u])
        /\ ops[u][i].kind = "chunks"
        /\ DeviceReturn(u, i, "error"))
       => /\ \A j \in 1..Len(ops'[u]) : ops'[u][j].kind # "chunks"
          /\ runs'[ops[u][i].owner].pc = "apology"
          /\ runs'[ops[u][i].owner].err = "speak_err"]_vars

\* C28: the text a run dispatches is the short answer when there is one and
\* it is shorter than 600 characters, and the full analysis otherwise (no
\* answer, an empty one, one of 600 characters or more); a run dispatches
\* one text, once
C28_SpokenTextSelection ==
  /\ analysis.dispatches <= 1
  /\ analysis.dispatches = 1 =>
       IF analysis.answer >= 1 /\ analysis.answer <= 599
       THEN analysis.spoken = "answer" /\ analysis.length = analysis.answer
       ELSE analysis.spoken = "analysis" /\ analysis.length = analysis.text

\* a run has dispatched the full analysis because the answer was exactly 600
\* characters long, and has completed
C28_Witness ==
  /\ analysis.dispatches = 1 /\ analysis.answer = 600 /\ analysis.spoken = "analysis"
  /\ \E r \in Slots : runs[r].pc = "done" /\ runs[r].exit = "complete"

\* two events are the same event (events differ in shape, so they are
\* compared as printed)
SameEvent(e, f) == ToString(e) = ToString(f)

\* the events es occur in the buffer in this order, from position from on
RECURSIVE InOrder(_, _)
InOrder(es, from) ==
  \/ es = <<>>
  \/ \E j \in from..Len(events) : SameEvent(events[j], Head(es)) /\ InOrder(Tail(es), j + 1)

\* C29: a run whose first capture attempt timed out, whose second attempt
\* delivered the photo and whose analysis came back with an answer shorter
\* than 600 characters has, once it is over, spoken the answer as a single
\* chunk, left the user idle, and recorded in this order the failure of
\* attempt 1, the success of attempt 2, the analysis, the start and the end
\* of the speech
C29_EndToEnd ==
  \A r \in Slots :
    (/\ runs[r].pc = "done"
     /\ cap.outcomes = <<Rejected(ERR_TIMEOUT), Delivered("photo")>>
     /\ analysis.dispatches = 1 /\ analysis.answer >= 1 /\ analysis.answer < ANSWER_LIMIT)
    => /\ runs[r].exit = "complete"
       /\ analysis.spoken = "answer"
       /\ ~userState[StateKey(runs[r].user)].isProcessing
       /\ InOrder(<< <<"photo_request_attempt_failed", 1, ERR_TIMEOUT>>,
                     <<"photo_request_success", 2>>,
                     <<"openai_response_ok", analysis.text, TRUE>>,
                     << <<"tts_chunk", 1>>, "start" >>,
                     <<"tts_chunk", 1, "done">> >>, 1)
       /\ \A j \in 1..Len(events) : ~SameEvent(events[j], << <<"tts_chunk", 2>>, "start" >>)

\* C30: ensureUserState returns the state of the user id, constructing the
\* default one when there is none: at most one state object is ever
\* constructed per user id, every call returns that object, the map holds
\* it from then on (it is neither replaced nor removed), and what was
\* written through it stays
C30_OneStatePerUser ==
  \A u \in Users :
    /\ hist.made[u] <= 1
    /\ hist.refs[u] \subseteq {1}
    /\ hist.ensured[u] >= 1 => StateKey(u) \in userKeys /\ hist.held[u] = 1 /\ hist.made[u] = 1
    /\ hist.ensured[u] = 0 => StateKey(u) \notin userKeys
    /\ hist.welcomed[u] => userState[StateKey(u)].welcomePlayed
    /\ hist.ensured[u] = 1 /\ ~hist.welcomed[u] /\ ~userState[StateKey(u)].isProcessing
         => userState[StateKey(u)] = DefaultState

\* ensureUserState was called three times for a user id whose state was
\* written to in between, and once for the other user id
C30_Witness ==
  /\ hist.ensured["u1"] = 3 /\ hist.welcomed["u1"] /\ userState[StateKey("u1")].isProcessing
  /\ hist.ensured["u2"] = 1 /\ userKeys = {StateKey("u1"), StateKey("u2")}

\* C32: when the operation of an audio-queue entry completes, by returning
\* or by throwing, the entry stays in the queue for the settle delay: at
\* the step at which its device call fails the entry is still there, in
\* its tail, and the slot of the user is not yet released
C32_SettleDelayOnFailure ==
  [][\A u \in Users, i \in 1..MaxOps :
       (/\ i <= Len(ops[u])
        /\ ~(ops[u][i].kind = "chunks" /\ ttsImpl = "A")
        /\ DeviceReturn(u, i, "error"))
       => /\ Len(ops'[u]) >= i
          /\ ops'[u][i].st = "tail"
          /\ userState'[StateKey(u)].audioChain = userState[StateKey(u)].audioChain]_vars

\* C34: a capture-only run makes no analysis call and no speech call: it is
\* never speaking the camera notice, the apology or any other text, and
\* never waiting for an analysis
C34_CaptureOnlySilent ==
  \A r \in Slots :
    runs[r].mode = "capture_only"
      => /\ runs[r].pc \notin {"prompt", "nocam", "analyzing", "analysis", "speaking", "apology"}
         /\ \A i \in 1..Len(ops[runs[r].user]) :
              ops[runs[r].user][i].owner = r => ops[runs[r].user][i].kind = "play"

\* C33: a long press resets the session: after it the state of the user is
\* back at its initial idle values (not processing, no photo, no analysis)
C33_LongPressResets ==
  [][\A s \in Sessions :
       Press(s, "long")
       => LET st == userState'[StateKey(userOf[s])]
          IN /\ ~st.isProcessing
             /\ st.photoHistory = <<>>
             /\ st.latestAnalysis = 0 /\ st.analysisByRequestId = {}]_vars

C39_LiveSessionRegistered ==
  \A s \in Sessions :
    sessions[s] = "active"
    => /\ sessionsByUser[userOf[s]] # "none"
       /\ sessions[sessionsByUser[userOf[s]]] = "active"

\* C31: a session start of a user plays the greeting when the user has no
\* debounce window or the window has passed, and plays none inside the
\* window
C31_GreetingRearmed ==
  [][\A s \in Sessions :
       OnSession(s)
       => LET u == userOf[s]
              st == userState[StateKey(u)]
          IN IF st.startupDebounceUntil = 0 \/ now >= st.startupDebounceUntil
             THEN Len(ops'[u]) = Len(ops[u]) + 1
             ELSE ops'[u] = ops[u]]_vars

\* the fingerprint and the timestamp of the user after call c of the history
HashAfter(c) ==
  IF c < Len(calls) THEN calls[c + 1].hashBefore ELSE userState[StateKey(calls[c].user)].lastTTSHash
AtAfter(c) ==
  IF c < Len(calls) THEN calls[c + 1].atBefore ELSE userState[StateKey(calls[c].user)].lastTTSAt

\* C36: a suppressed call leaves the fingerprint and the timestamp as they
\* were, and a call made a whole window or more after the last spoken call,
\* with only suppressed calls in between, is spoken
C36_SuppressedLeavesWindow ==
  /\ \A c \in 1..Len(calls) :
       calls[c].sup => HashAfter(c) = calls[c].hashBefore /\ AtAfter(c) = calls[c].atBefore
  /\ \A b, c \in 1..Len(calls) :
       (/\ b < c
        /\ ~calls[b].sup
        /\ \A j \in (b + 1)..(c - 1) : calls[j].sup
        /\ calls[c].at >= calls[b].at + AUDIO_DUPLICATE_SUPPRESS_MS)
       => ~calls[c].sup

\* the same request three times: spoken, suppressed inside the window, and
\* spoken again when the window of the first one is over
C36_Witness ==
  /\ Len(calls) = 3
  /\ calls[1].text = calls[2].text /\ calls[2].text = calls[3].text
  /\ calls[1].voice = calls[2].voice /\ calls[2].voice = calls[3].voice
  /\ ~calls[1].sup /\ calls[2].sup /\ ~calls[3].sup
  /\ calls[2].at > calls[1].at
  /\ calls[3].at = calls[1].at + AUDIO_DUPLICATE_SUPPRESS_MS

\* C37: of two calls of one user with the same fingerprint whose
\* comparisons are less than a window apart, with no comparison of another
\* fingerprint of the user between them, at most one goes on to the device;
\* and the state holds a fingerprint exactly when it holds a timestamp
C37_OneOfTwoSpeaks ==
  /\ \A b, c \in 1..Len(calls) :
       LET fp(j) == Fingerprint(calls[j].text, calls[j].voice)
       IN (/\ calls[b].user = calls[c].user
           /\ fp(b) = fp(c)
           /\ 0 < calls[b].cmp /\ calls[b].cmp < calls[c].cmp
           /\ calls[c].at - calls[b].at < AUDIO_DUPLICATE_SUPPRESS_MS
           /\ \A j \in 1..Len(calls) :
                (calls[j].user = calls[b].user /\ calls[b].cmp < calls[j].cmp /\ calls[j].cmp < calls[c].cmp)
                => fp(j) = fp(b))
          => calls[b].sup \/ calls[c].sup
  /\ \A u \in Users :
       (userState[StateKey(u)].lastTTSHash = DefaultState.lastTTSHash) <=> (userState[StateKey(u)].lastTTSAt = 0)

\* two calls with the same text and voice were both waiting for their hash;
\* the one that compared first is on the device, the other was suppressed
C37_Witness ==
  /\ ttsImpl = "A"
  /\ Len(calls) >= 2
  /\ calls[1].user = calls[2].user /\ calls[1].text = calls[2].text /\ calls[1].voice = calls[2].voice
  /\ calls[2].cmp = 1 /\ calls[2].pc = "speaking"
  /\ calls[1].cmp = 2 /\ calls[1].pc = "suppressed"

\* C35: a photo that arrives after its attempt has timed out changes
\* nothing of the capture; what requestPhotoRobust returns, and what is
\* cached, is the response that won the race of the last attempt made,
\* every attempt before it having failed
C35_LatePhotoDiscarded ==
  /\ [][\A j \in 1..MaxAttempts : LateDelivery(j) => UNCHANGED <<cap, userState, events>>]_vars
  /\ [](cap.pc \in {"returned", "cached"}
        => /\ cap.result = <<cap.outcomes[Len(cap.outcomes)].kind, Len(cap.outcomes)>>
           /\ Len(cap.outcomes) = cap.requests
           /\ \A j \in 1..(Len(cap.outcomes) - 1) : AttemptResult(cap.impl, cap.outcomes[j]).kind = "error"
           /\ \A l \in hist.late : l.of # cap.result[2])
  /\ [](\A u \in Users :
          LET h == userState[StateKey(u)].photoHistory
          IN IF cap.pc = "cached" /\ u = userOf[cap.session]
             THEN h = <<cap.result>>
             ELSE h = <<>>)

\* the first attempt timed out, its photo came while the second attempt
\* was waiting, and the photo of the second attempt was returned and cached
C35_Witness ==
  /\ cap.pc = "cached"
  /\ cap.result = <<"photo", 2>>
  /\ cap.outcomes[1] = Rejected(ERR_TIMEOUT)
  /\ [of |-> 1, during |-> 2, pc |-> "request"] \in hist.late
  /\ userState[StateKey("u1")].photoHistory = << <<"photo", 2>> >>

\* the photos and the analyses a user state holds
Kept(st) == <<st.photoHistory, st.latestAnalysis, st.analysisByRequestId>>

\* C40: the photos and the analyses of a user change only in the step where
\* the capture of a run of the user succeeds (the new photo is cached) or
\* its analysis succeeds (the analysis of its photo is cached); a run whose
\* capture failed has no photo
C40_FailedCaptureKeepsState ==
  /\ [][\A u \in Users :
          LET st == userState[StateKey(u)]
              nx == userState'[StateKey(u)]
          IN Kept(nx) # Kept(st)
             => \E r \in Slots :
                  /\ runs[r].user = u
                  /\ \/ /\ runs[r].pc = "capture" /\ nextPhoto' = nextPhoto + 1 /\ runs'[r].err # "capture_err"
                        /\ Kept(nx) = <<cachePhoto(st.photoHistory, nextPhoto), st.latestAnalysis, st.analysisByRequestId>>
                     \/ /\ runs[r].pc = "analysis" /\ runs[r].photo # 0 /\ runs'[r].pc = "speaking"
                        /\ Kept(nx) = <<st.photoHistory, runs[r].photo, st.analysisByRequestId \cup {runs[r].photo}>>]_vars
  /\ [](\A r \in Slots :
          (runs[r].err = "capture_err" \/ runs[r].pc = "nocam")
          => /\ runs[r].photo = 0
             /\ \A j \in 1..Len(userState[StateKey(runs[r].user)].photoHistory) :
                  userState[StateKey(runs[r].user)].photoHistory[j] < nextPhoto)

\* the capture of a run has failed and the run is apologising, while the
\* photo and the analysis of an earlier run are in the state of the user
C40_Witness ==
  \E r \in Slots :
    /\ runs[r].pc = "apology" /\ runs[r].err = "capture_err"
    /\ userState[StateKey(runs[r].user)].photoHistory = <<1>>
    /\ userState[StateKey(runs[r].user)].latestAnalysis = 1
    /\ userState[StateKey(runs[r].user)].analysisByRequestId = {1}
    /\ nextPhoto = 2

====
